---- MODULE Spec2Model ----
(***************************************************************************)
(* Model of the nginx access-log exporter (src/main.go): per namespace a   *)
(* supervisor goroutine registers six metric vectors and starts one line   *)
(* ingestor goroutine per source file; every ingestor resolves a label     *)
(* vector per parsed line and updates the shared vectors.                  *)
(*                                                                         *)
(* Strings are sequences of lexemes (<<"GET", " ", "/", "api">> is the     *)
(* text "GET /api"); the lexeme " " is the only one holding a space, and   *)
(* the text of a numeric field is written character by character, so       *)
(* splitting on spaces, prefix matching and the parsing of numbers are     *)
(* computed, not assumed.                                                  *)
(***************************************************************************)
EXTENDS Integers, Sequences, FiniteSets, TLC

VARIABLES
    build,        \* the Go toolchain and the client library of the build
    cfg,          \* nsCfg of every namespace supervisor
    procState,    \* "running", "panicked" (unrecovered panic), "exited"
                  \* (status 0) or "killed" (signal without a handler)
    registry,     \* the global prometheus registry: for every name it
                  \* holds, the namespace and the field of its Metrics
                  \* whose vector is registered under it
    supState,     \* per namespace: position of the supervisor goroutine
    opened,       \* per namespace: number of source files already tailed
    labels,       \* per namespace: label names of the six vectors
    metrics,      \* per namespace: the Metrics struct, six vectors
    pc,           \* per namespace and file: position of the ingestor goroutine
    labelValues,  \* per namespace and file: the ingestor's labelValues slice
    entry,        \* per namespace and file: the gonx entry of the current line
    nlines,       \* per namespace and file: line events taken from t.Lines
    errlog,       \* per namespace and file: parse errors printed to stdout
    mainPc,       \* position of the main goroutine
    handlerPc,    \* position of the signal handler goroutine
    consul,       \* discovery lifecycle, or "disabled"
    exitChan,     \* signals buffered in exitChan (capacity 1)
    consulCalls,  \* calls made of RegisterConsul and UnregisterConsul
    scraped       \* the last response of /metrics, or NoResponse

vars == <<build, cfg, procState, registry, supState, opened, labels, metrics,
          pc, labelValues, entry, nlines, errlog,
          mainPc, handlerPc, consul, exitChan, consulCalls, scraped>>

\* the state of the main goroutine, the signal handler and the endpoint
mainVars == <<mainPc, handlerPc, consul, exitChan, consulCalls, scraped>>

----------------------------------------------------------------------------
(* Bounds of the model *)

\* line events one tail source delivers
MaxLines == 2

\* line events all tail sources together deliver
MaxTotalLines == 4

\* source files, and so ingestors, of the namespace of SpecConc
NumFiles == 2

----------------------------------------------------------------------------
(* Strings *)

Empty == <<>>

SP == " "

UNKNOWN == <<"UNKNOWN">>

ZERO == <<"0">>

OtherValue == <<"other">>

\* strings.Split(s, sep) for a one-lexeme separator: n separators give n+1
\* pieces, and the empty string gives one empty piece
RECURSIVE Split(_, _)
Split(s, sep) ==
    IF \A i \in 1..Len(s) : s[i] # sep
    THEN <<s>>
    ELSE LET i == CHOOSE k \in 1..Len(s) :
                      s[k] = sep /\ \A j \in 1..(k - 1) : s[j] # sep
         IN  <<SubSeq(s, 1, i - 1)>> \o Split(SubSeq(s, i + 1, Len(s)), sep)

HasPrefix(s, p) ==
    /\ Len(p) <= Len(s)
    /\ SubSeq(s, 1, Len(p)) = p

\* regexp.MatchString for the patterns of the model, which are all of the
\* form ^literal; a pattern is kept as its literal
MatchString(re, s) == HasPrefix(s, re)

Digits == <<"0", "1", "2", "3", "4", "5", "6", "7", "8", "9">>

IsDigit(c) == \E d \in 1..10 : Digits[d] = c

DigitVal(c) == (CHOOSE d \in 1..10 : Digits[d] = c) - 1

\* the index of the first lexeme of s that is in cs, 0 when there is none
IndexAny(s, cs) ==
    IF \A i \in 1..Len(s) : s[i] \notin cs THEN 0
    ELSE CHOOSE k \in 1..Len(s) :
             s[k] \in cs /\ \A j \in 1..(k - 1) : s[j] \notin cs

----------------------------------------------------------------------------
(* Natural numbers of any size, for the 53-bit mantissas of float64 and for *)
(* the conversion of decimal texts: a number is the sequence of its limbs,  *)
(* lowest first, each below Base, the highest not zero; zero is <<>>.  The  *)
(* operations are functions, so that every argument is evaluated once.      *)

LimbBits == 15

Base == 32768

Big == Seq(Nat)

Pow2(k) == 2 ^ k

\* limb i of a, zero beyond its length
Limb(a, i) == IF i >= 1 /\ i <= Len(a) THEN a[i] ELSE 0

\* a without its high zero limbs
Trim[a \in Big] ==
    IF \A i \in DOMAIN a : a[i] = 0 THEN <<>>
    ELSE SubSeq(a, 1, CHOOSE i \in DOMAIN a :
                          a[i] # 0 /\ \A j \in (i + 1)..Len(a) : a[j] = 0)

\* the limbs of an integer
Small[k \in Nat] == IF k = 0 THEN <<>> ELSE <<k % Base>> \o Small[k \div Base]

\* the limbs r[2], r[3], ... with the carry r[1] as the highest
Carry[r \in Big] == Trim[Append(Tail(r), r[1])]

(* The limb loops below run over the positions lo..hi by halves, so that    *)
(* the depth of the evaluation grows with the logarithm of the length; the  *)
(* intermediate result is the carry followed by the limbs computed so far.  *)

\* a + b
BAdd[a \in Big, b \in Big] ==
    LET go[lo \in Nat, hi \in Nat, acc \in Big] ==
            IF lo > hi THEN acc
            ELSE IF lo = hi
            THEN <<(Limb(a, lo) + Limb(b, lo) + acc[1]) \div Base>>
                   \o Tail(acc)
                   \o <<(Limb(a, lo) + Limb(b, lo) + acc[1]) % Base>>
            ELSE go[(lo + hi) \div 2 + 1, hi, go[lo, (lo + hi) \div 2, acc]]
    IN  Carry[go[1, IF Len(a) < Len(b) THEN Len(b) ELSE Len(a), <<0>>]]

\* a - b, for a >= b
BSub[a \in Big, b \in Big] ==
    LET go[lo \in Nat, hi \in Nat, acc \in Big] ==
            IF lo > hi THEN acc
            ELSE IF lo = hi
            THEN <<IF a[lo] - Limb(b, lo) - acc[1] < 0 THEN 1 ELSE 0>>
                   \o Tail(acc)
                   \o <<(Base + a[lo] - Limb(b, lo) - acc[1]) % Base>>
            ELSE go[(lo + hi) \div 2 + 1, hi, go[lo, (lo + hi) \div 2, acc]]
    IN  Trim[Tail(go[1, Len(a), <<0>>])]

\* a < b
BLess[a \in Big, b \in Big] ==
    \/ Len(a) < Len(b)
    \/ /\ Len(a) = Len(b)
       /\ \E i \in 1..Len(a) :
             /\ a[i] < b[i]
             /\ \A j \in (i + 1)..Len(a) : a[j] = b[j]

\* a * k, for k below Base
BMul[a \in Big, k \in Nat] ==
    LET go[lo \in Nat, hi \in Nat, acc \in Big] ==
            IF lo > hi THEN acc
            ELSE IF lo = hi
            THEN <<(a[lo] * k + acc[1]) \div Base>>
                   \o Tail(acc)
                   \o <<(a[lo] * k + acc[1]) % Base>>
            ELSE go[(lo + hi) \div 2 + 1, hi, go[lo, (lo + hi) \div 2, acc]]
    IN  Carry[go[1, Len(a), <<0>>]]

\* a divided by k, for k below Base: the remainder, then the limbs of the
\* quotient
BDiv[a \in Big, k \in Nat] ==
    LET go[lo \in Nat, hi \in Nat, acc \in Big] ==
            IF lo > hi THEN acc
            ELSE IF lo = hi
            THEN <<(acc[1] * Base + a[lo]) % k, (acc[1] * Base + a[lo]) \div k>>
                   \o Tail(acc)
            ELSE go[lo, (lo + hi) \div 2, go[(lo + hi) \div 2 + 1, hi, acc]]
    IN  go[1, Len(a), <<0>>]

\* a * 2^s
Shl[a \in Big, s \in Nat] ==
    LET q == s \div LimbBits
        r == s % LimbBits
    IN  Trim[[i \in 1..(Len(a) + q + 1) |->
                 IF i <= q THEN 0
                 ELSE (Limb(a, i - q) % Pow2(LimbBits - r)) * Pow2(r)
                        + Limb(a, i - q - 1) \div Pow2(LimbBits - r)]]

\* a \div 2^s
Shr[a \in Big, s \in Nat] ==
    LET q == s \div LimbBits
        r == s % LimbBits
    IN  Trim[[i \in 1..(IF Len(a) > q THEN Len(a) - q ELSE 0) |->
                 Limb(a, i + q) \div Pow2(r)
                   + (Limb(a, i + q + 1) % Pow2(r)) * Pow2(LimbBits - r)]]

\* bit j of a, the lowest being bit 0
Bit(a, j) == (Limb(a, j \div LimbBits + 1) \div Pow2(j % LimbBits)) % 2

\* the bits of a below bit s are zero
LowZero(a, s) ==
    /\ \A i \in 1..(s \div LimbBits) : Limb(a, i) = 0
    /\ Limb(a, s \div LimbBits + 1) % Pow2(s % LimbBits) = 0

\* the number of bits of a
BitLen[a \in Big] ==
    IF a = <<>> THEN 0
    ELSE LimbBits * (Len(a) - 1)
           + CHOOSE k \in 1..LimbBits :
                 Pow2(k - 1) <= a[Len(a)] /\ a[Len(a)] < Pow2(k)

\* the number of zero bits below the lowest one bit of a, for a not zero
TrailingZeros[a \in Big] ==
    CHOOSE j \in 0..(LimbBits * Len(a)) : Bit(a, j) = 1 /\ LowZero(a, j)

----------------------------------------------------------------------------
(* float64: a finite value is (-1)^neg * m * 2^e with m below 2^53, kept    *)
(* with m odd (zero is m = <<>>, e = 0, with its sign) so that equal values *)
(* are equal records; e is at least MinExp and the value is below 2^MaxBits. *)
(* Every result is rounded to the nearest value, ties to the even mantissa. *)

MantBits == 53

MinExp == -1074

MaxBits == 1024

Zero(neg) == [kind |-> "fin", neg |-> neg, m |-> <<>>, e |-> 0]

Inf(neg) == [kind |-> "inf", neg |-> neg, m |-> <<>>, e |-> 0]

NaN == [kind |-> "nan", neg |-> FALSE, m |-> <<>>, e |-> 0]

\* m * 2^e, for m not zero, with the zero bits at the low end of m taken
\* into the exponent
Fin[neg \in BOOLEAN, m \in Big, e \in Int] ==
    [kind |-> "fin", neg |-> neg,
     m |-> Shr[m, TrailingZeros[m]], e |-> e + TrailingZeros[m]]

\* m * 2^e for a mantissa that fits: infinite from 2^MaxBits on
Pack[neg \in BOOLEAN, m \in Big, e \in Int] ==
    IF m = <<>> THEN Zero(neg)
    ELSE IF BitLen[m] + e > MaxBits THEN Inf(neg)
    ELSE Fin[neg, m, e]

\* q * 2^e rounded to a multiple of 2^u, for u > e; st says that the exact
\* value lies above q * 2^e by less than 2^e
RoundAt[neg \in BOOLEAN, q \in Big, e \in Int, st \in BOOLEAN, u \in Int] ==
    IF u <= e THEN Pack[neg, q, e]
    ELSE IF /\ Bit(q, u - e - 1) = 1
            /\ (st \/ ~LowZero(q, u - e - 1) \/ Bit(q, u - e) = 1)
    THEN Pack[neg, BAdd[Shr[q, u - e], <<1>>], u]
    ELSE Pack[neg, Shr[q, u - e], u]

\* the float64 nearest to q * 2^e (st as for RoundAt)
Round[neg \in BOOLEAN, q \in Big, e \in Int, st \in BOOLEAN] ==
    IF q = <<>> THEN Zero(neg)
    ELSE RoundAt[neg, q, e, st,
                 IF BitLen[q] + e - MantBits < MinExp THEN MinExp
                 ELSE BitLen[q] + e - MantBits]

\* float64(k) of a small integer
Whole(k) == IF k < 0 THEN Round[TRUE, Small[-k], 0, FALSE]
            ELSE Round[FALSE, Small[k], 0, FALSE]

\* x * 2^e + y * 2^e with the signs an and bn
Aligned[an \in BOOLEAN, x \in Big, bn \in BOOLEAN, y \in Big, e \in Int] ==
    IF an = bn THEN Round[an, BAdd[x, y], e, FALSE]
    ELSE IF x = y THEN Zero(FALSE)
    ELSE IF BLess[x, y] THEN Round[bn, BSub[y, x], e, FALSE]
    ELSE Round[an, BSub[x, y], e, FALSE]

\* a + b of float64
Sum(a, b) ==
    IF a.kind = "nan" \/ b.kind = "nan" THEN NaN
    ELSE IF a.kind = "inf" /\ b.kind = "inf"
    THEN IF a.neg = b.neg THEN a ELSE NaN
    ELSE IF a.kind = "inf" THEN a
    ELSE IF b.kind = "inf" THEN b
    ELSE IF a.m = <<>> /\ b.m = <<>> THEN Zero(a.neg /\ b.neg)
    ELSE IF a.m = <<>> THEN b
    ELSE IF b.m = <<>> THEN a
    ELSE IF a.e <= b.e
    THEN Aligned[a.neg, a.m, b.neg, Shl[b.m, b.e - a.e], a.e]
    ELSE Aligned[a.neg, Shl[a.m, a.e - b.e], b.neg, b.m, b.e]

\* v < 0 of float64: false for NaN and for -0
Negative(v) == v.kind # "nan" /\ v.neg /\ (v.kind = "inf" \/ v.m # <<>>)

\* a <= b of float64: false when either is NaN
AtMost(a, b) ==
    /\ a.kind # "nan"
    /\ b.kind # "nan"
    /\ IF a = b THEN TRUE
       ELSE IF a.kind = "inf" THEN a.neg
       ELSE IF b.kind = "inf" THEN ~b.neg
       ELSE IF a.m = <<>> /\ b.m = <<>> THEN TRUE
       ELSE IF a.neg # b.neg THEN a.neg
       ELSE IF a.m = <<>> THEN ~a.neg
       ELSE IF b.m = <<>> THEN a.neg
       ELSE LET x == IF a.e <= b.e THEN a.m ELSE Shl[a.m, a.e - b.e]
                y == IF a.e <= b.e THEN Shl[b.m, b.e - a.e] ELSE b.m
            IN  IF a.neg THEN ~BLess[x, y] ELSE ~BLess[y, x]

----------------------------------------------------------------------------
(* strconv.ParseFloat(s, 64).  A numeric text is a sequence of characters.  *)
(* The toolchain decides two points of the syntax: from Go 1.13 on a text   *)
(* may be a hexadecimal float ("0x1p-2") and may hold underscores between   *)
(* digits ("1_000"); before, both are syntax errors.                        *)

GoVersions == {"go1.12", "go1.13"}

UpperCase == <<"A", "B", "C", "D", "E", "F", "G", "H", "I", "J", "K", "L", "M",
               "N", "O", "P", "Q", "R", "S", "T", "U", "V", "W", "X", "Y", "Z">>

LowerCase == <<"a", "b", "c", "d", "e", "f", "g", "h", "i", "j", "k", "l", "m",
               "n", "o", "p", "q", "r", "s", "t", "u", "v", "w", "x", "y", "z">>

\* the lower-case letter of c; c itself when it is no upper-case letter
lower(c) ==
    IF \E k \in DOMAIN UpperCase : UpperCase[k] = c
    THEN LowerCase[CHOOSE k \in DOMAIN UpperCase : UpperCase[k] = c]
    ELSE c

ToLower(s) == [i \in 1..Len(s) |-> lower(s[i])]

HexLetters == <<"a", "b", "c", "d", "e", "f">>

IsHexLetter(c) == \E k \in DOMAIN HexLetters : HexLetters[k] = lower(c)

\* the value of a hexadecimal digit
HexVal(c) ==
    IF IsDigit(c) THEN DigitVal(c)
    ELSE 9 + CHOOSE k \in DOMAIN HexLetters : HexLetters[k] = lower(c)

Signed(s) == s # <<>> /\ s[1] \in {"+", "-"}

Unsigned(s) == IF Signed(s) THEN Tail(s) ELSE s

NotUnderscore(c) == c # "_"

NotZero(c) == c # "0"

\* the words of special(): any mix of upper and lower case
InfWords == {<<"i", "n", "f">>, <<"i", "n", "f", "i", "n", "i", "t", "y">>}

NaNWords == {<<"n", "a", "n">>}

\* the length of the longest prefix of s made of characters of cs
PrefixLen(s, cs) ==
    IF \A i \in DOMAIN s : s[i] \in cs THEN Len(s)
    ELSE (CHOOSE i \in DOMAIN s :
              s[i] \notin cs /\ \A j \in 1..(i - 1) : s[j] \in cs) - 1

\* the number written by decimal digits after those of acc
FromDigits[s \in Seq(STRING), acc \in Big] ==
    IF s = <<>> THEN acc
    ELSE IF Len(s) = 1 THEN BAdd[BMul[acc, 10], Small[DigitVal(s[1])]]
    ELSE FromDigits[SubSeq(s, Len(s) \div 2 + 1, Len(s)),
                    FromDigits[SubSeq(s, 1, Len(s) \div 2), acc]]

\* the number written by hexadecimal digits after those of acc
FromHex[s \in Seq(STRING), acc \in Big] ==
    IF s = <<>> THEN acc
    ELSE IF Len(s) = 1 THEN BAdd[Shl[acc, 4], Small[HexVal(s[1])]]
    ELSE FromHex[SubSeq(s, Len(s) \div 2 + 1, Len(s)),
                 FromHex[SubSeq(s, 1, Len(s) \div 2), acc]]

ExpLimit == 10000

\* the exponent as readFloat accumulates it: no digit is added once the
\* value has reached ExpLimit
ExpValue[s \in Seq(STRING)] ==
    IF s = <<>> THEN 0
    ELSE IF ExpValue[SubSeq(s, 1, Len(s) - 1)] < ExpLimit
    THEN ExpValue[SubSeq(s, 1, Len(s) - 1)] * 10 + DigitVal(s[Len(s)])
    ELSE ExpValue[SubSeq(s, 1, Len(s) - 1)]

\* underscoreOK: an underscore stands only between two digits, or between a
\* base prefix and a digit
UnderscoreOK(s) ==
    LET t == Unsigned(s)
        prefix == Len(t) >= 2 /\ t[1] = "0" /\ lower(t[2]) \in {"b", "o", "x"}
        hex == prefix /\ lower(t[2]) = "x"
        first == IF prefix THEN 3 ELSE 1
        digit(i) == IsDigit(t[i]) \/ (hex /\ IsHexLetter(t[i]))
    IN  \A i \in first..Len(t) :
            t[i] = "_" =>
                /\ IF i = first THEN prefix ELSE digit(i - 1)
                /\ i < Len(t)
                /\ digit(i + 1)

\* a * 10^n
MulPow10[a \in Big, n \in Nat] ==
    IF n <= 4 THEN BMul[a, 10 ^ n]
    ELSE MulPow10[MulPow10[a, n \div 2], n - n \div 2]

\* a quotient q and whether a digit was dropped on the way to it
Quotient == [q : Big, st : BOOLEAN]

\* d.q \div 10^n, with d.st or "a digit was dropped"
DivPow10[d \in Quotient, n \in Nat] ==
    IF n <= 4
    THEN [q |-> Trim[Tail(BDiv[d.q, 10 ^ n])],
          st |-> d.st \/ BDiv[d.q, 10 ^ n][1] # 0]
    ELSE DivPow10[DivPow10[d, n \div 2], n - n \div 2]

RoundQuotient[neg \in BOOLEAN, d \in Quotient, e \in Int] ==
    Round[neg, d.q, e, d.st]

MaxDecimalPoint == 310

MinDecimalPoint == -330

GuardBits == 1080

\* the float64 nearest to d * 10^x, for d of nd decimal digits: beyond
\* MaxDecimalPoint digits before the point it is infinite, beyond
\* MinDecimalPoint it is zero
Decimal[neg \in BOOLEAN, d \in Big, nd \in Nat, x \in Int] ==
    IF d = <<>> THEN Zero(neg)
    ELSE IF nd + x > MaxDecimalPoint THEN Inf(neg)
    ELSE IF nd + x < MinDecimalPoint THEN Zero(neg)
    ELSE IF x >= 0 THEN Round[neg, MulPow10[d, x], 0, FALSE]
    ELSE RoundQuotient[neg,
                       DivPow10[[q |-> Shl[d, GuardBits + 4 * (-x)],
                                 st |-> FALSE], -x],
                       -(GuardBits + 4 * (-x))]

\* special(): an optional sign and "inf" or "infinity", or "nan" without a
\* sign
Special(s) ==
    IF ToLower(Unsigned(s)) \in InfWords
    THEN [ok |-> TRUE, val |-> Inf(Signed(s) /\ s[1] = "-")]
    ELSE IF ToLower(s) \in NaNWords
    THEN [ok |-> TRUE, val |-> NaN]
    ELSE [ok |-> FALSE, val |-> Zero(FALSE)]

\* the values of float64
Float64 == [kind : {"fin", "inf", "nan"}, neg : BOOLEAN, m : Big, e : Int]

\* no number: a syntax error
SyntaxError == [ok |-> FALSE, val |-> Zero(FALSE)]

\* the result of a conversion: a value out of range is infinite and comes
\* with ErrRange, so ok, which is "err == nil", is false
Ranged[v \in Float64] == [ok |-> v.kind # "inf", val |-> v]

\* the value of the mantissa digits, nfp of them after the point, with the
\* exponent exp
Convert[neg \in BOOLEAN, hex \in BOOLEAN, digits \in Seq(STRING),
        nfp \in Nat, exp \in Int] ==
    IF hex
    THEN Ranged[Round[neg, FromHex[digits, <<>>], exp - 4 * nfp, FALSE]]
    ELSE Ranged[Decimal[neg, FromDigits[digits, <<>>],
                        Len(digits) - PrefixLen(digits, {"0"}), exp - nfp]]

\* the digits of an exponent: at least one, the first a digit
ExpOK(ext, edigs) ==
    /\ edigs # <<>>
    /\ IsDigit(edigs[1])
    /\ \A i \in DOMAIN edigs : IsDigit(edigs[i]) \/ (ext /\ edigs[i] = "_")

\* the value of an exponent with its sign
SignedExp(ex) ==
    IF Signed(ex) /\ ex[1] = "-"
    THEN -ExpValue[SelectSeq(Unsigned(ex), NotUnderscore)]
    ELSE ExpValue[SelectSeq(Unsigned(ex), NotUnderscore)]

\* readFloat after the mantissa, whose digits before and after the point
\* are ip and fp: the text ends, or an exponent follows, marked by e (by p
\* in a hexadecimal float, which must have one)
Exponent[ext \in BOOLEAN, neg \in BOOLEAN, hex \in BOOLEAN,
         ip \in Seq(STRING), fp \in Seq(STRING), rest \in Seq(STRING)] ==
    IF ip \o fp = <<>> THEN SyntaxError
    ELSE IF rest = <<>>
    THEN IF hex THEN SyntaxError
         ELSE Convert[neg, hex, ip \o fp, Len(fp), 0]
    ELSE IF lower(rest[1]) # (IF hex THEN "p" ELSE "e") THEN SyntaxError
    ELSE IF ~ExpOK(ext, Unsigned(Tail(rest))) THEN SyntaxError
    ELSE Convert[neg, hex, ip \o fp, Len(fp), SignedExp(Tail(rest))]

\* readFloat on the mantissa u, which has its first point at dot (0: none)
\* and ends at mEnd
Mantissa[ext \in BOOLEAN, neg \in BOOLEAN, hex \in BOOLEAN,
         u \in Seq(STRING), dot \in Nat, mEnd \in Nat] ==
    Exponent[ext, neg, hex,
             SelectSeq(SubSeq(u, 1, IF dot = 0 THEN mEnd ELSE dot - 1),
                       NotUnderscore),
             IF dot = 0 THEN <<>>
             ELSE SelectSeq(SubSeq(u, dot + 1, mEnd), NotUnderscore),
             SubSeq(u, mEnd + 1, Len(u))]

\* the mantissa ends before a second point
Points[ext \in BOOLEAN, neg \in BOOLEAN, hex \in BOOLEAN,
       u \in Seq(STRING), run \in Nat, dot \in Nat] ==
    Mantissa[ext, neg, hex, u, dot,
             IF dot = 0 THEN run
             ELSE IF IndexAny(SubSeq(u, dot + 1, run), {"."}) = 0 THEN run
             ELSE dot + IndexAny(SubSeq(u, dot + 1, run), {"."}) - 1]

\* a character of a mantissa
IsMantChar(ext, hex, c) ==
    IsDigit(c) \/ (hex /\ IsHexLetter(c)) \/ c = "." \/ (ext /\ c = "_")

\* readFloat on the text u after the sign and the base prefix: the run of
\* mantissa characters
Scan[ext \in BOOLEAN, neg \in BOOLEAN, hex \in BOOLEAN, u \in Seq(STRING),
     run \in Nat] ==
    Points[ext, neg, hex, u, run, IndexAny(SubSeq(u, 1, run), {"."})]

\* the text t, after the sign, is a hexadecimal float
IsHex(ext, t) == ext /\ Len(t) > 2 /\ t[1] = "0" /\ lower(t[2]) = "x"

\* t, after the sign, without the base prefix
Body(ext, t) == IF IsHex(ext, t) THEN SubSeq(t, 3, Len(t)) ELSE t

\* readFloat and the conversion: the mantissa digits with at most one
\* point, then an exponent; ok is false on a syntax error and on a value
\* out of range.  ext says that the toolchain reads hexadecimal floats and
\* underscores.
ReadFloat(ext, s) ==
    IF ext /\ ~UnderscoreOK(s) THEN SyntaxError
    ELSE Scan[ext, Signed(s) /\ s[1] = "-", IsHex(ext, Unsigned(s)),
              Body(ext, Unsigned(s)),
              PrefixLen(Body(ext, Unsigned(s)),
                        {c \in {Body(ext, Unsigned(s))[i] :
                                   i \in DOMAIN Body(ext, Unsigned(s))} :
                            IsMantChar(ext, IsHex(ext, Unsigned(s)), c)})]

\* ParseFloat(s, 64) as built by toolchain b: the value and "err == nil",
\* which is false on a syntax error and on a value out of range (the value
\* is then infinite)
ParseFloat(b, s) ==
    IF Special(s).ok THEN Special(s) ELSE ReadFloat(b = "go1.13", s)

----------------------------------------------------------------------------
(* gonx entries: a function from the field names of a line to their text *)

ParseError == [err |-> "does not match given format"]

Field(e, name) ==
    IF name \in DOMAIN e THEN [ok |-> TRUE, val |-> e[name]]
    ELSE [ok |-> FALSE, val |-> Empty]

\* what parser.ParseString can return under the format fmt: the error, or an
\* entry with a text for each variable of the format and for nothing else
Parses(fmt, line) == line = ParseError \/ DOMAIN line = fmt

\* the formats of the parsed lines among lines
Formats(lines) == {DOMAIN l : l \in lines \ {ParseError}}

\* the texts of the numeric fields, character by character: 512, -5, 0.5,
\* 0.005, 1e3, NaN, +Inf and the "-" nginx writes for a value it does not
\* have
Text512 == <<"5", "1", "2">>

TextMinus5 == <<"-", "5">>

TextHalf == <<"0", ".", "5">>

Text5Thousandths == <<"0", ".", "0", "0", "5">>

Text1e3 == <<"1", "e", "3">>

TextNaN == <<"N", "a", "N">>

TextInf == <<"+", "I", "n", "f">>

Dash == <<"-">>

\* iNf and nAn, the special words in mixed case
TextMixedInf == <<"i", "N", "f">>

TextMixedNaN == <<"n", "A", "n">>

\* 1e400, beyond the range of float64, and 1e-400, below its smallest value
Text1e400 == <<"1", "e", "4", "0", "0">>

Text1eMinus400 == <<"1", "e", "-", "4", "0", "0">>

\* 0x1p-2 and 1_000, numbers from Go 1.13 on
TextHex == <<"0", "x", "1", "p", "-", "2">>

TextUnderscore == <<"1", "_", "0", "0", "0">>

\* 1234567890 and 2000.005, which is no float64: it is read as the nearest
TextLong == <<"1", "2", "3", "4", "5", "6", "7", "8", "9", "0">>

Text2000 == <<"2", "0", "0", "0", ".", "0", "0", "5">>

\* the texts the numeric fields of the lines of the model hold, and
\* ParseFloat of each under each toolchain, computed once
FloatTexts ==
    {Text512, TextMinus5, TextHalf, Text5Thousandths, Text1e3, TextNaN,
     TextInf, Dash, Empty, TextMixedInf, TextMixedNaN, Text1e400,
     Text1eMinus400, TextHex, TextUnderscore, TextLong, Text2000}

Parsed == [b \in GoVersions |-> [s \in FloatTexts |-> ParseFloat(b, s)]]

\* the numbers most lines of the model hold: 1 for the line itself, 512,
\* 0.5 and 0.005
CommonValues ==
    {Whole(1)} \cup {Parsed[g][s].val :
                        g \in GoVersions,
                        s \in {Text512, TextHalf, Text5Thousandths}}

\* x added up k times
RECURSIVE Repeated(_, _)
Repeated(x, k) == IF k = 0 THEN Zero(FALSE) ELSE Sum(Repeated(x, k - 1), x)

\* Sum of the pairs that adding up one of these numbers line after line
\* comes by, computed once
Sums ==
    [p \in {<<Repeated(x, k), x>> :
               x \in CommonValues, k \in 0..MaxTotalLines} |->
        Sum(p[1], p[2])]

\* a + b of float64, looked up where it is computed already
Plus(a, b) == IF <<a, b>> \in DOMAIN Sums THEN Sums[<<a, b>>] ELSE Sum(a, b)

\* Entry.FloatField: the field, then strconv.ParseFloat of its text
FloatField(e, name) ==
    IF name \notin DOMAIN e THEN [ok |-> FALSE, val |-> Zero(FALSE)]
    ELSE IF e[name] \in FloatTexts THEN Parsed[build.go][e[name]]
    ELSE ParseFloat(build.go, e[name])

NilEntry == [nil |-> TRUE]

----------------------------------------------------------------------------
(* config.NamespaceConfig *)

\* a namespace as the configuration file declares it; Format is kept as the
\* set of the variables its log format names, and the last five fields are
\* filled by MustCompile
NamespaceConfig(name, files, staticLabels, relabels, routeRules) ==
    [Name |-> name,
     Format |-> {},
     SourceFiles |-> files,
     Labels |-> staticLabels,
     RelabelRules |-> relabels,
     RouteRules |-> routeRules,
     OrderedLabelNames |-> <<>>,
     OrderedLabelValues |-> <<>>,
     RelabelConfigs |-> <<>>,
     Routes |-> <<>>,
     CompiledRouteRegexps |-> <<>>]

MustCompile(c) ==
    [c EXCEPT
       !.OrderedLabelNames = [i \in 1..Len(c.Labels) |-> c.Labels[i].name],
       !.OrderedLabelValues = [i \in 1..Len(c.Labels) |-> c.Labels[i].value],
       !.RelabelConfigs =
           [i \in 1..Len(c.RelabelRules) |->
               [TargetLabel |-> c.RelabelRules[i].TargetLabel,
                SourceValue |-> c.RelabelRules[i].SourceValue,
                WhitelistExists |-> c.RelabelRules[i].Whitelist # {},
                WhitelistMap |-> c.RelabelRules[i].Whitelist]],
       !.Routes = [i \in 1..Len(c.RouteRules) |-> c.RouteRules[i].name],
       !.CompiledRouteRegexps =
           [i \in 1..Len(c.RouteRules) |-> c.RouteRules[i].pattern]]

HasRouteMatchers(c) == Len(c.Routes) > 0

----------------------------------------------------------------------------
(* Metrics.Init *)

\* the label names of lines 50 and 53
MethodLabel == <<"method">>

StatusLabel == <<"status">>

RouteLabel == <<"request", "_", "uri">>

RECURSIVE RelabelTargets(_, _)
RelabelTargets(c, i) ==
    IF i > Len(c.RelabelConfigs) THEN <<>>
    ELSE <<c.RelabelConfigs[i].TargetLabel>> \o RelabelTargets(c, i + 1)

\* Init with the relabel targets appended before the static label names
InitLabelsRelabelFirst(c) ==
    <<MethodLabel, StatusLabel>>
      \o (IF HasRouteMatchers(c) THEN <<RouteLabel>> ELSE <<>>)
      \o RelabelTargets(c, 1)
      \o c.OrderedLabelNames

InitLabels(c) ==
    <<MethodLabel, StatusLabel>>
      \o (IF HasRouteMatchers(c) THEN <<RouteLabel>> ELSE <<>>)
      \o c.OrderedLabelNames
      \o RelabelTargets(c, 1)

\* the fields of Metrics in the order of their registration (lines 98-103),
\* and the metric name of each
VecOrder ==
    <<"countTotal", "bytesTotal", "upstreamSeconds", "upstreamSecondsHist",
      "responseSeconds", "responseSecondsHist">>

MetricOrder ==
    <<<<"http", "_", "response", "_", "count", "_", "total">>,
      <<"http", "_", "response", "_", "size", "_", "bytes">>,
      <<"http", "_", "upstream", "_", "time", "_", "seconds">>,
      <<"http", "_", "upstream", "_", "time", "_", "seconds", "_", "hist">>,
      <<"http", "_", "response", "_", "time", "_", "seconds">>,
      <<"http", "_", "response", "_", "time", "_", "seconds", "_", "hist">>>>

MetricNames == {MetricOrder[k] : k \in DOMAIN MetricOrder}

\* prometheus.BuildFQName(namespace, "", name)
BuildFQName(namespace, name) ==
    IF namespace = Empty THEN name ELSE namespace \o <<"_">> \o name

FullNames(c) == {BuildFQName(c.Name, m) : m \in MetricNames}

SummaryVecs == {"upstreamSeconds", "responseSeconds"}

HistogramVecs == {"upstreamSecondsHist", "responseSecondsHist"}

(* In a name, a digit and a character that is neither a letter nor a digit *)
(* are lexemes of their own; every other lexeme is a run of letters.       *)

Marks == {"_", ":", "-", ".", " ", "/", "*", "+"}

IsLetters(c) == c \notin Marks /\ ~IsDigit(c)

\* model.LabelName.IsValid: [a-zA-Z_][a-zA-Z0-9_]*
IsValidLabelName(l) ==
    /\ l # Empty
    /\ IsLetters(l[1]) \/ l[1] = "_"
    /\ \A i \in DOMAIN l : IsLetters(l[i]) \/ IsDigit(l[i]) \/ l[i] = "_"

\* model.IsValidMetricName: [a-zA-Z_:][a-zA-Z0-9_:]*
IsValidMetricName(m) ==
    /\ m # Empty
    /\ IsLetters(m[1]) \/ m[1] \in {"_", ":"}
    /\ \A i \in DOMAIN m :
           IsLetters(m[i]) \/ IsDigit(m[i]) \/ m[i] \in {"_", ":"}

reservedLabelPrefix == <<"_", "_">>

\* checkLabelName: a valid label name that is not reserved
checkLabelName(l) ==
    IsValidLabelName(l) /\ ~HasPrefix(l, reservedLabelPrefix)

\* the label names of a descriptor NewDesc accepts: each a label name, none
\* twice
ValidLabels(ls) ==
    /\ \A i \in DOMAIN ls : checkLabelName(ls[i])
    /\ \A i, j \in DOMAIN ls : i # j => ls[i] # ls[j]

\* the descriptor NewDesc makes for a vector is without error
ValidDesc(fqName, ls) == IsValidMetricName(fqName) /\ ValidLabels(ls)

quantileLabel == <<"quantile">>

\* the client library looks for the label quantile of a summary when the
\* vector is made (NewSummaryVec of its later releases) or when a child of
\* the vector is made (newSummary of its earlier ones)
Clients == {"vec", "child"}

Builds == [go : GoVersions, client : Clients]

bucketLabel == <<"le">>

Among(l, ls) == \E i \in DOMAIN ls : ls[i] = l

\* newSummary and newHistogram, which make the child of a vector, accept
\* its label names: a summary has no label quantile, a histogram no label le
NewChildOK(ls, vec) ==
    /\ vec \in SummaryVecs => ~Among(quantileLabel, ls)
    /\ vec \in HistogramVecs => ~Among(bucketLabel, ls)

\* the names of the four vectors prometheus.Handler() registers for the
\* handler itself
HandlerNames ==
    {<<"http", "_", "requests", "_", "total">>,
     <<"http", "_", "request", "_", "duration", "_", "microseconds">>,
     <<"http", "_", "request", "_", "size", "_", "bytes">>,
     <<"http", "_", "response", "_", "size", "_", "bytes">>}

EmptyVec == [lv \in {} |-> 0]

NewMetrics ==
    [countTotal |-> EmptyVec,
     bytesTotal |-> EmptyVec,
     upstreamSeconds |-> EmptyVec,
     upstreamSecondsHist |-> EmptyVec,
     responseSeconds |-> EmptyVec,
     responseSecondsHist |-> EmptyVec]

----------------------------------------------------------------------------
(* The metric vectors: a child per label vector, made on first use *)

\* the value of a new child of a CounterVec, and of a SummaryVec or
\* HistogramVec (the number of observations and their sum)
ZeroCounter == Whole(0)

\* the 1 of Counter.Inc
One == Whole(1)

ZeroObserver == [count |-> 0, sum |-> Whole(0)]

\* vec.WithLabelValues(lv...): the child of lv, made with value zero on
\* first use
GetOrCreate(vec, lv, zero) ==
    IF lv \in DOMAIN vec THEN vec ELSE vec @@ (lv :> zero)

\* Counter.Add(x) on the child of lv; Inc() is Add(1)
Add(vec, lv, x) == [vec EXCEPT ![lv] = Plus(@, x)]

\* Inc that stores 1 in the child instead of adding 1 to it
IncAsSet(vec, lv) == [vec EXCEPT ![lv] = Whole(1)]

Inc(vec, lv) == Add(vec, lv, One)

\* Summary.Observe(x) and Histogram.Observe(x) on the child of lv
Observe(vec, lv, x) ==
    [vec EXCEPT ![lv] = [count |-> @.count + 1, sum |-> Plus(@.sum, x)]]

\* WithLabelValues panics unless it gets one value per registered label name
ArityOK(names, lv) == Len(lv) = Len(names)

----------------------------------------------------------------------------
(* The line ingestor goroutine: labelValues and per-line label resolution *)

intrinsicLabelCount(c) == IF HasRouteMatchers(c) THEN 3 ELSE 2

\* the offset of the relabel slots counted without the route slot
relabelLabelOffsetNoRoute(c) == Len(c.OrderedLabelValues) + 2

relabelLabelOffset(c) == Len(c.OrderedLabelValues) + intrinsicLabelCount(c)

totalLabelCount(c) ==
    Len(c.OrderedLabelValues) + intrinsicLabelCount(c) + Len(c.RelabelConfigs)

\* make([]string, totalLabelCount) and the copy of the static label values
NewLabelValues(c) ==
    [k \in 1..totalLabelCount(c) |->
        IF /\ k > intrinsicLabelCount(c)
           /\ k <= intrinsicLabelCount(c) + Len(c.OrderedLabelValues)
        THEN c.OrderedLabelValues[k - intrinsicLabelCount(c)]
        ELSE Empty]

\* the route loop without its break: the last matching rule wins
RECURSIVE RouteLoopNoBreak(_, _, _, _)
RouteLoopNoBreak(c, path, i, cur) ==
    IF i > Len(c.CompiledRouteRegexps) THEN cur
    ELSE RouteLoopNoBreak(c, path, i + 1,
             IF MatchString(c.CompiledRouteRegexps[i], path)
             THEN c.Routes[i] ELSE cur)

\* the loop over CompiledRouteRegexps from rule i on; cur is the route slot
RECURSIVE RouteLoop(_, _, _, _)
RouteLoop(c, path, i, cur) ==
    IF i > Len(c.CompiledRouteRegexps) THEN cur
    ELSE IF MatchString(c.CompiledRouteRegexps[i], path) THEN c.Routes[i]
    ELSE RouteLoop(c, path, i + 1, cur)

\* the relabel value with the whitelist consulted even when none exists
RelabelValueAlwaysWhitelist(rc, e) ==
    LET fld == Field(e, rc.SourceValue)
    IN  IF ~fld.ok THEN Empty
        ELSE IF fld.val \notin rc.WhitelistMap THEN OtherValue
        ELSE fld.val

\* the value one relabel rule writes for an entry
RelabelValue(rc, e) ==
    LET fld == Field(e, rc.SourceValue)
    IN  IF ~fld.ok THEN Empty
        ELSE IF rc.WhitelistExists /\ fld.val \notin rc.WhitelistMap
        THEN OtherValue
        ELSE fld.val

\* the loop over RelabelConfigs from rule i on
RECURSIVE RelabelLoop(_, _, _, _)
RelabelLoop(c, lv, e, i) ==
    IF i > Len(c.RelabelConfigs) THEN lv
    ELSE RelabelLoop(c,
             [lv EXCEPT ![i + relabelLabelOffset(c)] =
                            RelabelValue(c.RelabelConfigs[i], e)],
             e, i + 1)

\* the request block without the reset of line 214: the route loop starts
\* from the route slot as the line before left it
RequestBlockNoReset(c, lv, e) ==
    LET req == Field(e, "request")
        f == Split(req.val, SP)
    IN  IF ~req.ok THEN [panicked |-> FALSE, lv |-> lv]
        ELSE LET lv1 == [lv EXCEPT ![1] = f[1]]
             IN  IF ~HasRouteMatchers(c) THEN [panicked |-> FALSE, lv |-> lv1]
                 ELSE IF Len(c.CompiledRouteRegexps) = 0
                      THEN [panicked |-> FALSE, lv |-> lv1]
                      ELSE IF Len(f) < 2
                      THEN [panicked |-> TRUE, lv |-> lv1]
                      ELSE [panicked |-> FALSE,
                            lv |-> [lv1 EXCEPT ![3] =
                                      RouteLoop(c, f[2], 1, lv1[3])]]

\* the request block: method, route reset and route matching.  f[1] of the
\* code is f[2] here; with fewer than two pieces the index is out of range
\* and the goroutine panics after the writes made so far.
RequestBlock(c, lv, e) ==
    LET req == Field(e, "request")
        f == Split(req.val, SP)
    IN  IF ~req.ok THEN [panicked |-> FALSE, lv |-> lv]
        ELSE LET lv1 == [lv EXCEPT ![1] = f[1]]
             IN  IF ~HasRouteMatchers(c) THEN [panicked |-> FALSE, lv |-> lv1]
                 ELSE LET lv2 == [lv1 EXCEPT ![3] = Empty]
                      IN  IF Len(c.CompiledRouteRegexps) = 0
                          THEN [panicked |-> FALSE, lv |-> lv2]
                          ELSE IF Len(f) < 2
                          THEN [panicked |-> TRUE, lv |-> lv2]
                          ELSE [panicked |-> FALSE,
                                lv |-> [lv2 EXCEPT ![3] =
                                          RouteLoop(c, f[2], 1, Empty)]]

StatusBlock(lv, e) ==
    LET s == Field(e, "status")
    IN  IF s.ok THEN [lv EXCEPT ![2] = s.val] ELSE lv

\* label resolution that does not write the defaults first
ResolveLabelsNoDefaults(c, lv, e) ==
    LET r == RequestBlock(c, lv, e)
    IN  IF r.panicked THEN r
        ELSE [panicked |-> FALSE,
              lv |-> RelabelLoop(c, StatusBlock(r.lv, e), e, 1)]

\* label resolution of one parsed line, from the defaults to the relabel loop
ResolveLabels(c, lv, e) ==
    LET lv0 == [lv EXCEPT ![1] = UNKNOWN, ![2] = ZERO]
        r == RequestBlock(c, lv0, e)
    IN  IF r.panicked THEN r
        ELSE [panicked |-> FALSE,
              lv |-> RelabelLoop(c, StatusBlock(r.lv, e), e, 1)]

----------------------------------------------------------------------------
(* Namespaces, files and ingestors of a configuration *)

Namespaces == DOMAIN cfg

Files(n) == 1..Len(cfg[n].SourceFiles)

Ingestors == UNION {{<<n, f>> : f \in Files(n)} : n \in Namespaces}

Running == procState = "running"

RECURSIVE SumOver(_, _)
SumOver(S, val) ==
    IF S = {} THEN 0
    ELSE LET x == CHOOSE y \in S : TRUE
         IN  val[x] + SumOver(S \ {x}, val)

\* line events taken so far by all ingestors together
TotalLines == SumOver(Ingestors, [i \in Ingestors |-> nlines[i[1]][i[2]]])

\* no request to /metrics made yet
NoResponse == [started |-> FALSE, collect |-> {}, write |-> {}, body |-> {}]

\* the namespaces cs, each with a log format of fs, before any namespace
\* goroutine has run; sup is "unborn" before the go statement of line 167
\* and "start" after it
FreshNamespaces(bs, cs, fs, sup) ==
    /\ build \in bs
    /\ \E c \in cs :
          \E fm \in [DOMAIN c -> fs] :
             cfg = [n \in DOMAIN c |-> [c[n] EXCEPT !.Format = fm[n]]]
    /\ procState = "running"
    /\ registry = <<>>
    /\ supState = [n \in DOMAIN cfg |-> sup]
    /\ opened = [n \in DOMAIN cfg |-> 0]
    /\ labels = [n \in DOMAIN cfg |-> <<>>]
    /\ metrics = [n \in DOMAIN cfg |-> NewMetrics]
    /\ pc = [n \in DOMAIN cfg |->
               [f \in 1..Len(cfg[n].SourceFiles) |-> "unborn"]]
    /\ labelValues = [n \in DOMAIN cfg |->
               [f \in 1..Len(cfg[n].SourceFiles) |-> <<>>]]
    /\ entry = [n \in DOMAIN cfg |->
               [f \in 1..Len(cfg[n].SourceFiles) |-> NilEntry]]
    /\ nlines = [n \in DOMAIN cfg |->
               [f \in 1..Len(cfg[n].SourceFiles) |-> 0]]
    /\ errlog = [n \in DOMAIN cfg |->
               [f \in 1..Len(cfg[n].SourceFiles) |-> 0]]
    /\ handlerPc = "none"
    /\ exitChan = 0
    /\ consulCalls = [register |-> 0, unregister |-> 0, failed |-> 0]
    /\ scraped = NoResponse

\* the state after the last turn of the namespace loop of main, discovery
\* disabled, for the toolchains bs and the namespaces cs
InitWith(bs, cs, fs) ==
    /\ FreshNamespaces(bs, cs, fs, "start")
    /\ mainPc = "spawn"
    /\ consul = "disabled"

\* the state after flag and configuration loading (line 141), for the
\* toolchains bs and the namespaces cs, with and without discovery
InitMain(bs, cs, fs) ==
    /\ FreshNamespaces(bs, cs, fs, "unborn")
    /\ consul \in {"disabled", "unregistered"}
    /\ mainPc = IF consul = "disabled" THEN "spawn" ELSE "consul"

----------------------------------------------------------------------------
(* The namespace supervisor goroutine *)

AfterOpen(n, k) == IF k >= Len(cfg[n].SourceFiles) THEN "done" ELSE "tailing"

\* lines 48-96 of metrics.Init(&nsCfg): compile, build the label names and
\* make the six vectors under them; NewSummaryVec (line 74) panics on the
\* label quantile where the library looks for it there
MetricsInit(n) ==
    /\ Running
    /\ supState[n] = "start"
    /\ LET c == MustCompile(cfg[n])
       IN  /\ cfg' = [cfg EXCEPT ![n] = c]
           /\ IF build.client = "vec" /\ Among(quantileLabel, InitLabels(c))
              THEN /\ procState' = "panicked"
                   /\ UNCHANGED <<labels, supState>>
              ELSE /\ labels' = [labels EXCEPT ![n] = InitLabels(c)]
                   /\ supState' = [supState EXCEPT ![n] = "register"]
                   /\ UNCHANGED procState
    /\ UNCHANGED <<build, registry, opened, metrics, pc, labelValues, entry,
                   nlines, errlog>>
    /\ UNCHANGED mainVars

\* the names the registry holds for the handler of /metrics itself, once
\* prometheus.Handler() has run
HandlerHeld ==
    IF mainPc \in {"listen", "serving", "returned"} THEN HandlerNames ELSE {}

\* the names under which the registry holds a vector of namespace n
RegisteredBy(n) == {name \in DOMAIN registry : registry[name].ns = n}

\* MustRegister that registers with Register and drops its error: the name
\* goes to the vector registered last
MustRegisterIgnoresDuplicate(n) ==
    /\ Running
    /\ supState[n] = "register"
    /\ LET k == Cardinality(RegisteredBy(n)) + 1
           name == BuildFQName(cfg[n].Name, MetricOrder[k])
       IN  /\ registry' = [x \in DOMAIN registry \cup {name} |->
                              IF x = name THEN [ns |-> n, vec |-> VecOrder[k]]
                              ELSE registry[x]]
           /\ supState' = [supState EXCEPT ![n] =
                              IF k = Len(MetricOrder) THEN AfterOpen(n, 0)
                              ELSE @]
    /\ UNCHANGED <<build, cfg, procState, opened, labels, metrics, pc,
                   labelValues, entry, nlines, errlog>>
    /\ UNCHANGED mainVars

\* one of lines 98-103 of metrics.Init, prometheus.MustRegister of the next
\* vector: it panics on an invalid descriptor (a metric name or a label name
\* that is none, a reserved label name, a label name twice) and on a name
\* the registry already holds, for a namespace or for the handler; after
\* the sixth, Init returns
MustRegister(n) ==
    /\ Running
    /\ supState[n] = "register"
    /\ LET k == Cardinality(RegisteredBy(n)) + 1
           name == BuildFQName(cfg[n].Name, MetricOrder[k])
       IN  IF \/ ~ValidDesc(name, labels[n])
              \/ name \in DOMAIN registry \cup HandlerHeld
           THEN /\ procState' = "panicked"
                /\ UNCHANGED <<registry, supState>>
           ELSE /\ registry' =
                       registry @@ (name :> [ns |-> n, vec |-> VecOrder[k]])
                /\ supState' = [supState EXCEPT ![n] =
                                   IF k = Len(MetricOrder) THEN AfterOpen(n, 0)
                                   ELSE @]
                /\ UNCHANGED procState
    /\ UNCHANGED <<build, cfg, opened, labels, metrics, pc, labelValues, entry,
                   nlines, errlog>>
    /\ UNCHANGED mainVars

\* TailFile whose failure is passed over: the loop goes on to the next file
TailFileSkipsFailed(n, ok) ==
    /\ Running
    /\ supState[n] = "tailing"
    /\ opened' = [opened EXCEPT ![n] = @ + 1]
    /\ pc' = IF ok THEN [pc EXCEPT ![n][opened[n] + 1] = "start"] ELSE pc
    /\ supState' = [supState EXCEPT ![n] = AfterOpen(n, opened[n] + 1)]
    /\ UNCHANGED procState
    /\ UNCHANGED <<build, cfg, registry, labels, metrics, labelValues, entry,
                   nlines, errlog>>
    /\ UNCHANGED mainVars

\* tail.TailFile of the next source file: a failure panics, a success starts
\* the ingestor goroutine of that file
TailFile(n, ok) ==
    /\ Running
    /\ supState[n] = "tailing"
    /\ IF ok
       THEN /\ opened' = [opened EXCEPT ![n] = @ + 1]
            /\ pc' = [pc EXCEPT ![n][opened[n] + 1] = "start"]
            /\ supState' = [supState EXCEPT ![n] = AfterOpen(n, opened[n] + 1)]
            /\ UNCHANGED procState
       ELSE /\ procState' = "panicked"
            /\ UNCHANGED <<opened, pc, supState>>
    /\ UNCHANGED <<build, cfg, registry, labels, metrics, labelValues, entry,
                   nlines, errlog>>
    /\ UNCHANGED mainVars

----------------------------------------------------------------------------
(* The line ingestor goroutine *)

\* lines 184-197: the label buffer of this goroutine
IngestorStart(n, f) ==
    /\ Running
    /\ pc[n][f] = "start"
    /\ labelValues' = [labelValues EXCEPT ![n][f] = NewLabelValues(cfg[n])]
    /\ pc' = [pc EXCEPT ![n][f] = "idle"]
    /\ UNCHANGED <<build, cfg, procState, registry, supState, opened, labels,
                   metrics, entry, nlines, errlog>>
    /\ UNCHANGED mainVars

\* Receive without the continue: the rejected line goes on to the dispatch
ReceiveNoContinue(n, f, line) ==
    /\ Running
    /\ pc[n][f] = "idle"
    /\ Parses(cfg[n].Format, line)
    /\ nlines[n][f] < MaxLines
    /\ TotalLines < MaxTotalLines
    /\ nlines' = [nlines EXCEPT ![n][f] = @ + 1]
    /\ IF line = ParseError
       THEN /\ errlog' = [errlog EXCEPT ![n][f] = @ + 1]
            /\ entry' = [entry EXCEPT ![n][f] = NilEntry]
            /\ pc' = [pc EXCEPT ![n][f] = "count"]
            /\ UNCHANGED <<procState, labelValues>>
       ELSE LET r == ResolveLabels(cfg[n], labelValues[n][f], line)
            IN  /\ entry' = [entry EXCEPT ![n][f] = line]
                /\ labelValues' = [labelValues EXCEPT ![n][f] = r.lv]
                /\ procState' = IF r.panicked THEN "panicked" ELSE procState
                /\ pc' = IF r.panicked THEN pc
                         ELSE [pc EXCEPT ![n][f] = "count"]
                /\ UNCHANGED errlog
    /\ UNCHANGED <<build, cfg, registry, supState, opened, labels, metrics>>
    /\ UNCHANGED mainVars

\* Receive that does not wait for the loop body of the line before
ReceiveAnytime(n, f, line) ==
    /\ Running
    /\ pc[n][f] \notin {"unborn", "start"}
    /\ Parses(cfg[n].Format, line)
    /\ nlines[n][f] < MaxLines
    /\ TotalLines < MaxTotalLines
    /\ nlines' = [nlines EXCEPT ![n][f] = @ + 1]
    /\ IF line = ParseError
       THEN /\ errlog' = [errlog EXCEPT ![n][f] = @ + 1]
            /\ entry' = [entry EXCEPT ![n][f] = NilEntry]
            /\ UNCHANGED <<procState, pc, labelValues>>
       ELSE LET r == ResolveLabels(cfg[n], labelValues[n][f], line)
            IN  /\ entry' = [entry EXCEPT ![n][f] = line]
                /\ labelValues' = [labelValues EXCEPT ![n][f] = r.lv]
                /\ procState' = IF r.panicked THEN "panicked" ELSE procState
                /\ pc' = IF r.panicked THEN pc
                         ELSE [pc EXCEPT ![n][f] = "count"]
                /\ UNCHANGED errlog
    /\ UNCHANGED <<build, cfg, registry, supState, opened, labels, metrics>>
    /\ UNCHANGED mainVars

\* Receive with one label buffer for all ingestors of the namespace
ReceiveSharedBuffer(n, f, line) ==
    /\ Running
    /\ pc[n][f] = "idle"
    /\ Parses(cfg[n].Format, line)
    /\ nlines[n][f] < MaxLines
    /\ TotalLines < MaxTotalLines
    /\ nlines' = [nlines EXCEPT ![n][f] = @ + 1]
    /\ IF line = ParseError
       THEN /\ errlog' = [errlog EXCEPT ![n][f] = @ + 1]
            /\ entry' = [entry EXCEPT ![n][f] = NilEntry]
            /\ UNCHANGED <<procState, pc, labelValues>>
       ELSE LET r == ResolveLabels(cfg[n], labelValues[n][f], line)
            IN  /\ entry' = [entry EXCEPT ![n][f] = line]
                /\ labelValues' =
                       [labelValues EXCEPT ![n] =
                           [g \in Files(n) |->
                               IF pc[n][g] \in {"unborn", "start"}
                               THEN labelValues[n][g] ELSE r.lv]]
                /\ procState' = IF r.panicked THEN "panicked" ELSE procState
                /\ pc' = IF r.panicked THEN pc
                         ELSE [pc EXCEPT ![n][f] = "count"]
                /\ UNCHANGED errlog
    /\ UNCHANGED <<build, cfg, registry, supState, opened, labels, metrics>>
    /\ UNCHANGED mainVars

\* one line event from t.Lines, parsed by the parser of the namespace (line
\* 168); line is ParseError or the entry the parser returns.  A parse error
\* is printed and the loop continues; else the labels are resolved into
\* labelValues.
Receive(n, f, line) ==
    /\ Running
    /\ pc[n][f] = "idle"
    /\ Parses(cfg[n].Format, line)
    /\ nlines[n][f] < MaxLines
    /\ TotalLines < MaxTotalLines
    /\ nlines' = [nlines EXCEPT ![n][f] = @ + 1]
    /\ IF line = ParseError
       THEN /\ errlog' = [errlog EXCEPT ![n][f] = @ + 1]
            /\ entry' = [entry EXCEPT ![n][f] = NilEntry]
            /\ UNCHANGED <<procState, pc, labelValues>>
       ELSE LET r == ResolveLabels(cfg[n], labelValues[n][f], line)
            IN  /\ entry' = [entry EXCEPT ![n][f] = line]
                /\ labelValues' = [labelValues EXCEPT ![n][f] = r.lv]
                /\ procState' = IF r.panicked THEN "panicked" ELSE procState
                /\ pc' = IF r.panicked THEN pc
                         ELSE [pc EXCEPT ![n][f] = "count"]
                /\ UNCHANGED errlog
    /\ UNCHANGED <<build, cfg, registry, supState, opened, labels, metrics>>
    /\ UNCHANGED mainVars

\* WithLabelValues on a vector held by all namespaces together
WithLabelValuesShared(n, f, vec, zero, next) ==
    /\ IF ArityOK(labels[n], labelValues[n][f]) /\ NewChildOK(labels[n], vec)
       THEN /\ metrics' = [m \in Namespaces |->
                              [metrics[m] EXCEPT ![vec] =
                                  GetOrCreate(metrics[n][vec],
                                              labelValues[n][f], zero)]]
            /\ pc' = [pc EXCEPT ![n][f] = next]
            /\ UNCHANGED procState
       ELSE /\ procState' = "panicked"
            /\ UNCHANGED <<metrics, pc>>
    /\ UNCHANGED <<build, cfg, registry, supState, opened, labels, labelValues,
                   entry, nlines, errlog>>
    /\ UNCHANGED mainVars

\* the first library call of an update, vec.WithLabelValues(labelValues...):
\* it panics on a wrong number of values, else it returns the child of the
\* label vector, which it makes with value zero on first use; making the
\* child of a summary with the label quantile or of a histogram with the
\* label le panics, so that such a vector never has a child
WithLabelValues(n, f, vec, zero, next) ==
    /\ IF ArityOK(labels[n], labelValues[n][f]) /\ NewChildOK(labels[n], vec)
       THEN /\ metrics' = [metrics EXCEPT ![n][vec] =
                              GetOrCreate(@, labelValues[n][f], zero)]
            /\ pc' = [pc EXCEPT ![n][f] = next]
            /\ UNCHANGED procState
       ELSE /\ procState' = "panicked"
            /\ UNCHANGED <<metrics, pc>>
    /\ UNCHANGED <<build, cfg, registry, supState, opened, labels, labelValues,
                   entry, nlines, errlog>>
    /\ UNCHANGED mainVars

\* the second library call of an update, Inc, Add or Observe on the child
SinkCall(n, f, vec, new, next) ==
    /\ metrics' = [metrics EXCEPT ![n][vec] = new]
    /\ pc' = [pc EXCEPT ![n][f] = next]
    /\ UNCHANGED <<build, cfg, procState, registry, supState, opened, labels,
                   labelValues, entry, nlines, errlog>>
    /\ UNCHANGED mainVars

\* a FloatField that failed: the call is skipped
SinkSkip(n, f, next) ==
    /\ pc' = [pc EXCEPT ![n][f] = next]
    /\ UNCHANGED <<build, cfg, procState, registry, supState, opened, labels,
                   metrics, labelValues, entry, nlines, errlog>>
    /\ UNCHANGED mainVars

\* Counter.Add of a negative value panics
SinkPanic ==
    /\ procState' = "panicked"
    /\ UNCHANGED <<build, cfg, registry, supState, opened, labels, metrics, pc,
                   labelValues, entry, nlines, errlog>>
    /\ UNCHANGED mainVars

\* line 242, countTotal.WithLabelValues
CountChild(n, f) ==
    /\ Running
    /\ pc[n][f] = "count"
    /\ WithLabelValues(n, f, "countTotal", ZeroCounter, "countInc")

\* line 242, Inc
IncCount(n, f) ==
    /\ Running
    /\ pc[n][f] = "countInc"
    /\ SinkCall(n, f, "countTotal",
                Inc(metrics[n].countTotal, labelValues[n][f]), "bytes")

\* lines 244-245, FloatField and bytesTotal.WithLabelValues
BytesChild(n, f) ==
    /\ Running
    /\ pc[n][f] = "bytes"
    /\ IF FloatField(entry[n][f], "body_bytes_sent").ok
       THEN WithLabelValues(n, f, "bytesTotal", ZeroCounter, "bytesAdd")
       ELSE SinkSkip(n, f, "upstream")

\* line 245, Add(bytes)
AddBytes(n, f) ==
    /\ Running
    /\ pc[n][f] = "bytesAdd"
    /\ LET bytes == FloatField(entry[n][f], "body_bytes_sent")
       IN  IF Negative(bytes.val)
           THEN SinkPanic
           ELSE SinkCall(n, f, "bytesTotal",
                    Add(metrics[n].bytesTotal, labelValues[n][f], bytes.val),
                    "upstream")

\* lines 248-249, FloatField and upstreamSeconds.WithLabelValues
UpstreamChild(n, f) ==
    /\ Running
    /\ pc[n][f] = "upstream"
    /\ IF FloatField(entry[n][f], "upstream_response_time").ok
       THEN WithLabelValues(n, f, "upstreamSeconds", ZeroObserver,
                            "upstreamObserve")
       ELSE SinkSkip(n, f, "response")

\* line 249, Observe(upstreamTime)
ObserveUpstream(n, f) ==
    /\ Running
    /\ pc[n][f] = "upstreamObserve"
    /\ LET upstreamTime == FloatField(entry[n][f], "upstream_response_time")
       IN  SinkCall(n, f, "upstreamSeconds",
               Observe(metrics[n].upstreamSeconds, labelValues[n][f],
                       upstreamTime.val),
               "upstreamHist")

\* line 250, upstreamSecondsHist.WithLabelValues
UpstreamHistChild(n, f) ==
    /\ Running
    /\ pc[n][f] = "upstreamHist"
    /\ WithLabelValues(n, f, "upstreamSecondsHist", ZeroObserver,
                       "upstreamHistObserve")

\* line 250, Observe(upstreamTime)
ObserveUpstreamHist(n, f) ==
    /\ Running
    /\ pc[n][f] = "upstreamHistObserve"
    /\ LET upstreamTime == FloatField(entry[n][f], "upstream_response_time")
       IN  SinkCall(n, f, "upstreamSecondsHist",
               Observe(metrics[n].upstreamSecondsHist, labelValues[n][f],
                       upstreamTime.val),
               "response")

\* lines 253-254, FloatField and responseSeconds.WithLabelValues
ResponseChild(n, f) ==
    /\ Running
    /\ pc[n][f] = "response"
    /\ IF FloatField(entry[n][f], "request_time").ok
       THEN WithLabelValues(n, f, "responseSeconds", ZeroObserver,
                            "responseObserve")
       ELSE SinkSkip(n, f, "idle")

\* line 254, Observe(responseTime)
ObserveResponse(n, f) ==
    /\ Running
    /\ pc[n][f] = "responseObserve"
    /\ LET responseTime == FloatField(entry[n][f], "request_time")
       IN  SinkCall(n, f, "responseSeconds",
               Observe(metrics[n].responseSeconds, labelValues[n][f],
                       responseTime.val),
               "responseHist")

\* line 255, responseSecondsHist.WithLabelValues
ResponseHistChild(n, f) ==
    /\ Running
    /\ pc[n][f] = "responseHist"
    /\ WithLabelValues(n, f, "responseSecondsHist", ZeroObserver,
                       "responseHistObserve")

\* line 255, Observe(responseTime)
ObserveResponseHist(n, f) ==
    /\ Running
    /\ pc[n][f] = "responseHistObserve"
    /\ LET responseTime == FloatField(entry[n][f], "request_time")
       IN  SinkCall(n, f, "responseSecondsHist",
               Observe(metrics[n].responseSecondsHist, labelValues[n][f],
                       responseTime.val),
               "idle")

----------------------------------------------------------------------------
(* The main goroutine: discovery, the namespace loop, the endpoint *)

\* line 143: discovery.NewConsulRegistrator; an error panics
NewConsulRegistrator(ok) ==
    /\ Running
    /\ mainPc = "consul"
    /\ IF ok THEN mainPc' = "register" /\ UNCHANGED procState
             ELSE procState' = "panicked" /\ UNCHANGED mainPc
    /\ UNCHANGED <<build, cfg, registry, supState, opened, labels, metrics, pc,
                   labelValues, entry, nlines, errlog>>
    /\ UNCHANGED <<handlerPc, consul, exitChan, consulCalls, scraped>>

\* RegisterConsul whose error is passed over
RegisterConsulOrContinue(ok) ==
    /\ Running
    /\ mainPc = "register"
    /\ consulCalls' = [consulCalls EXCEPT !.register = @ + 1]
    /\ consul' = IF ok THEN "registered" ELSE consul
    /\ mainPc' = "notify"
    /\ UNCHANGED procState
    /\ UNCHANGED <<build, cfg, registry, supState, opened, labels, metrics, pc,
                   labelValues, entry, nlines, errlog>>
    /\ UNCHANGED <<handlerPc, exitChan, scraped>>

\* lines 148-151: registrator.RegisterConsul; an error panics
RegisterConsul(ok) ==
    /\ Running
    /\ mainPc = "register"
    /\ consulCalls' = [consulCalls EXCEPT !.register = @ + 1]
    /\ IF ok THEN /\ consul' = "registered"
                  /\ mainPc' = "notify"
                  /\ UNCHANGED procState
             ELSE /\ procState' = "panicked"
                  /\ UNCHANGED <<consul, mainPc>>
    /\ UNCHANGED <<build, cfg, registry, supState, opened, labels, metrics, pc,
                   labelValues, entry, nlines, errlog>>
    /\ UNCHANGED <<handlerPc, exitChan, scraped>>

\* lines 153-161: exitChan is made and subscribed to SIGINT and SIGTERM, and
\* the handler goroutine is started
Notify ==
    /\ Running
    /\ mainPc = "notify"
    /\ mainPc' = "spawn"
    /\ handlerPc' = "wait"
    /\ UNCHANGED <<build, cfg, procState, registry, supState, opened, labels,
                   metrics, pc, labelValues, entry, nlines, errlog>>
    /\ UNCHANGED <<consul, exitChan, consulCalls, scraped>>

\* the namespaces whose goroutine main has started
Spawned == {n \in Namespaces : supState[n] # "unborn"}

\* lines 164-167: the loop over cfg.Namespaces, in list order, has a next
\* namespace and starts its goroutine
SpawnNamespace ==
    /\ Running
    /\ mainPc = "spawn"
    /\ Cardinality(Spawned) < Cardinality(Namespaces)
    /\ supState' = [supState EXCEPT ![Cardinality(Spawned) + 1] = "start"]
    /\ UNCHANGED <<build, cfg, procState, registry, opened, labels, metrics, pc,
                   labelValues, entry, nlines, errlog>>
    /\ UNCHANGED mainVars

\* lines 164 and 263-266: the loop has no next namespace and
\* prometheus.Handler() makes the handler of /metrics, registering the four
\* vectors of the handler itself: it panics when the registry holds a
\* vector of a namespace under one of their names
Handler ==
    /\ Running
    /\ mainPc = "spawn"
    /\ Spawned = Namespaces
    /\ IF HandlerNames \cap DOMAIN registry = {}
       THEN mainPc' = "listen" /\ UNCHANGED procState
       ELSE procState' = "panicked" /\ UNCHANGED mainPc
    /\ UNCHANGED <<build, cfg, registry, supState, opened, labels, metrics, pc,
                   labelValues, entry, nlines, errlog>>
    /\ UNCHANGED <<handlerPc, consul, exitChan, consulCalls, scraped>>

\* line 267: the server listens; when ListenAndServe returns its
\* error, main returns and the process exits
ListenAndServe(ok) ==
    /\ Running
    /\ mainPc = "listen"
    /\ IF ok THEN mainPc' = "serving" /\ UNCHANGED procState
             ELSE mainPc' = "returned" /\ procState' = "exited"
    /\ UNCHANGED <<build, cfg, registry, supState, opened, labels, metrics, pc,
                   labelValues, entry, nlines, errlog>>
    /\ UNCHANGED <<handlerPc, consul, exitChan, consulCalls, scraped>>

\* the field of Metrics registered under a name
VecOf(name) == registry[name].vec

\* the vector the registry holds under a name, in the metrics m
Collector(m, name) == m[registry[name].ns][registry[name].vec]

\* the numbers exposed for a child: the value of a counter, the count and
\* the sum of a summary or histogram
SampleValue(name, child) ==
    IF VecOf(name) \in {"countTotal", "bytesTotal"}
    THEN [count |-> 0, value |-> child]
    ELSE [count |-> child.count, value |-> child.sum]

\* the sample exposed for the child lv of the vector held under a name: the
\* metric name, the label names, the label values and the numbers
Sample(m, name, lv) ==
    <<name, labels[registry[name].ns], lv,
      SampleValue(name, Collector(m, name)[lv])>>

\* the children of the vectors held under the names ns
Children(m, ns) ==
    UNION {{<<name, lv>> : lv \in DOMAIN Collector(m, name)} : name \in ns}

\* the samples of all registered vectors at one instant
Exposition(m) ==
    {Sample(m, ch[1], ch[2]) : ch \in Children(m, DOMAIN registry)}

\* a request whose response is complete
Served == scraped.started /\ scraped.collect = {} /\ scraped.write = {}

\* a scrape that empties the vectors once it has their collectors
ScrapeAndReset ==
    /\ Running
    /\ mainPc = "serving"
    /\ ~scraped.started \/ Served
    /\ scraped' = [started |-> TRUE, collect |-> DOMAIN registry,
                   write |-> {}, body |-> {}]
    /\ metrics' = [n \in Namespaces |-> NewMetrics]
    /\ UNCHANGED <<build, cfg, procState, registry, supState, opened, labels,
                   pc, labelValues, entry, nlines, errlog>>
    /\ UNCHANGED <<mainPc, handlerPc, consul, exitChan, consulCalls>>

\* GET /metrics reaches prometheus.Handler(): Gather takes the collectors
\* the registry holds at this instant; one request is followed at a time
Scrape ==
    /\ Running
    /\ mainPc = "serving"
    /\ ~scraped.started \/ Served
    /\ scraped' = [started |-> TRUE, collect |-> DOMAIN registry,
                   write |-> {}, body |-> {}]
    /\ UNCHANGED <<build, cfg, procState, registry, supState, opened, labels,
                   metrics, pc, labelValues, entry, nlines, errlog>>
    /\ UNCHANGED <<mainPc, handlerPc, consul, exitChan, consulCalls>>

\* Collect of one registered vector, in its own goroutine: the children the
\* vector has at this instant are handed to Gather.  The lock of the vector
\* is taken and released inside the call, as it is inside WithLabelValues:
\* each is one step, and no step waits for a lock
Collect(name) ==
    /\ Running
    /\ name \in scraped.collect
    /\ scraped' = [scraped EXCEPT
                      !.collect = @ \ {name},
                      !.write = @ \cup Children(metrics, {name})]
    /\ UNCHANGED <<build, cfg, procState, registry, supState, opened, labels,
                   metrics, pc, labelValues, entry, nlines, errlog>>
    /\ UNCHANGED <<mainPc, handlerPc, consul, exitChan, consulCalls>>

\* Write of one collected child: the value it has at this instant goes into
\* the response
Write(name, lv) ==
    /\ Running
    /\ <<name, lv>> \in scraped.write
    /\ scraped' = [scraped EXCEPT
                      !.write = @ \ {<<name, lv>>},
                      !.body = @ \cup {Sample(metrics, name, lv)}]
    /\ UNCHANGED <<build, cfg, procState, registry, supState, opened, labels,
                   metrics, pc, labelValues, entry, nlines, errlog>>
    /\ UNCHANGED <<mainPc, handlerPc, consul, exitChan, consulCalls>>

----------------------------------------------------------------------------
(* Signals and the handler goroutine of lines 156-161 *)

\* SIGINT or SIGTERM reaches the process: once subscribed it is put into
\* exitChan unless the buffer is full; before that, and without discovery,
\* the default disposition ends the process
Signal ==
    /\ Running
    /\ IF handlerPc = "none"
       THEN procState' = "killed" /\ UNCHANGED exitChan
       ELSE exitChan' = 1 /\ UNCHANGED procState
    /\ UNCHANGED <<build, cfg, registry, supState, opened, labels, metrics, pc,
                   labelValues, entry, nlines, errlog>>
    /\ UNCHANGED <<mainPc, handlerPc, consul, consulCalls, scraped>>

\* line 157: <-exitChan
HandlerReceive ==
    /\ Running
    /\ handlerPc = "wait"
    /\ exitChan = 1
    /\ exitChan' = 0
    /\ handlerPc' = "unregister"
    /\ consul' = "deregistering"
    /\ UNCHANGED <<build, cfg, procState, registry, supState, opened, labels,
                   metrics, pc, labelValues, entry, nlines, errlog>>
    /\ UNCHANGED <<mainPc, consulCalls, scraped>>

\* line 159: registrator.UnregisterConsul(); its result is dropped
UnregisterConsul(ok) ==
    /\ Running
    /\ handlerPc = "unregister"
    /\ consulCalls' = [consulCalls EXCEPT
                          !.unregister = @ + 1,
                          !.failed = IF ok THEN @ ELSE @ + 1]
    /\ handlerPc' = "exit"
    /\ UNCHANGED <<build, cfg, procState, registry, supState, opened, labels,
                   metrics, pc, labelValues, entry, nlines, errlog>>
    /\ UNCHANGED <<mainPc, consul, exitChan, scraped>>

\* line 160: os.Exit(0)
HandlerExit ==
    /\ Running
    /\ handlerPc = "exit"
    /\ procState' = "exited"
    /\ consul' = "terminated"
    /\ handlerPc' = "gone"
    /\ UNCHANGED <<build, cfg, registry, supState, opened, labels, metrics, pc,
                   labelValues, entry, nlines, errlog>>
    /\ UNCHANGED <<mainPc, exitChan, consulCalls, scraped>>

----------------------------------------------------------------------------
\* the next library call of the loop body of ingestor (n, f), lines 242-256
DispatchStep(n, f) ==
    \/ CountChild(n, f)
    \/ IncCount(n, f)
    \/ BytesChild(n, f)
    \/ AddBytes(n, f)
    \/ UpstreamChild(n, f)
    \/ ObserveUpstream(n, f)
    \/ UpstreamHistChild(n, f)
    \/ ObserveUpstreamHist(n, f)
    \/ ResponseChild(n, f)
    \/ ObserveResponse(n, f)
    \/ ResponseHistChild(n, f)
    \/ ObserveResponseHist(n, f)

----------------------------------------------------------------------------

(* Inputs: configurations and lines *)

\* the entry with the given <<field, text>> pairs
MkEntry(pairs) ==
    [k \in {p[1] : p \in pairs} |-> (CHOOSE p \in pairs : p[1] = k)[2]]

ReqEmpty == Empty

ReqLone == <<"GET">>

ReqApi == <<"GET", " ", "/", "api", "/", "v1", " ", "HTTP/1.1">>

ReqX == <<"POST", " ", "/", "x", " ", "HTTP/1.1">>

ReqStar == <<"OPTIONS", " ", "*", " ", "HTTP/1.1">>

Requests == {ReqEmpty, ReqLone, ReqApi, ReqX, ReqStar}

Status200 == <<"2", "0", "0">>

Opt(name, values) == {{}} \cup {{<<name, v>>} : v \in values}

\* lines that differ in the fields the labels are resolved from
LabelEntries ==
    {MkEntry(r \cup st) :
        r \in Opt("request", Requests), st \in Opt("status", {Status200})}
    \cup
    {MkEntry(r \cup {<<"status", Status200>>, <<"remote_user", u>>}) :
        r \in Opt("request", {ReqApi, ReqX}), u \in {<<"a">>, <<"c">>}}

\* lines that differ in the three numeric fields: absent, a number, "-"
NumericEntries ==
    {MkEntry({<<"request", ReqApi>>, <<"status", Status200>>}
             \cup b \cup u \cup t) :
        b \in Opt("body_bytes_sent", {Text512, Dash}),
        u \in Opt("upstream_response_time", {TextHalf, Dash}),
        t \in Opt("request_time", {Text5Thousandths, Dash})}

\* lines with the other forms of a number: a negative one, an exponent, NaN
\* and an infinity, then the special words in mixed case, a number beyond
\* the range and one too small for it, a hexadecimal one, one with an
\* underscore, one of ten digits and one that is rounded when read
SpecialEntries ==
    {MkEntry({<<"request", ReqApi>>, <<"status", Status200>>} \cup x) :
        x \in {{<<"body_bytes_sent", TextMinus5>>,
                <<"request_time", Text5Thousandths>>},
               {<<"request_time", Text1e3>>},
               {<<"upstream_response_time", TextNaN>>},
               {<<"upstream_response_time", TextInf>>},
               {<<"upstream_response_time", TextMixedInf>>},
               {<<"request_time", TextMixedNaN>>},
               {<<"body_bytes_sent", Text1e400>>,
                <<"request_time", Text5Thousandths>>},
               {<<"body_bytes_sent", Text1eMinus400>>},
               {<<"upstream_response_time", TextHex>>},
               {<<"body_bytes_sent", TextUnderscore>>},
               {<<"body_bytes_sent", TextLong>>},
               {<<"request_time", Text2000>>}}}

FullEntry ==
    MkEntry({<<"request", ReqApi>>, <<"status", Status200>>,
             <<"body_bytes_sent", Text512>>,
             <<"upstream_response_time", TextHalf>>,
             <<"request_time", Text5Thousandths>>})

LabelLines == {ParseError, FullEntry} \cup LabelEntries

DispatchLines == {ParseError} \cup NumericEntries \cup SpecialEntries

RuleApi == [pattern |-> <<"/", "api">>, name |-> <<"api">>]

RuleRoot == [pattern |-> <<"/">>, name |-> <<"root">>]

RouteChoices == {<<>>, <<RuleApi, RuleRoot>>, <<RuleRoot, RuleApi>>}

StaticChoices ==
    {<<>>,
     <<[name |-> <<"env">>, value |-> <<"prod">>],
       [name |-> <<"dc">>, value |-> <<"eu">>]>>}

RelabelUser ==
    [TargetLabel |-> <<"user">>, SourceValue |-> "remote_user",
     Whitelist |-> {<<"a">>, <<"b">>}]

RelabelCode ==
    [TargetLabel |-> <<"code">>, SourceValue |-> "status", Whitelist |-> {}]

RelabelChoices == {<<>>, <<RelabelUser>>, <<RelabelUser, RelabelCode>>}

\* one namespace with one source file, every combination of the choices
LabelConfigs ==
    {[n \in {"nginx"} |->
        NamespaceConfig(<<"nginx">>, <<"access.log">>, st, rl, rt)] :
        st \in StaticChoices, rl \in RelabelChoices, rt \in RouteChoices}

\* one namespace with NumFiles source files
ConcConfigs ==
    {[n \in {"nginx"} |->
        NamespaceConfig(<<"nginx">>, [f \in 1..NumFiles |-> <<"log", f>>],
                        st, <<>>, <<>>)] :
        st \in {<<>>}}

\* a line of another request, without a number of bytes
OtherEntry ==
    MkEntry({<<"request", ReqX>>, <<"status", Status200>>,
             <<"body_bytes_sent", Dash>>})

\* a line with the bytes sent and no time
BytesEntry ==
    MkEntry({<<"request", ReqApi>>, <<"status", Status200>>,
             <<"body_bytes_sent", Text512>>})

\* the lines of concurrent ingestors hold no time: the steps on the
\* summaries and histograms are checked with one ingestor
ConcLines == {ParseError, BytesEntry, OtherEntry}

\* a relabel rule whose target is named as the label of the quantiles of a
\* summary
RelabelQuantile ==
    [TargetLabel |-> quantileLabel, SourceValue |-> "status",
     Whitelist |-> {}]

\* one namespace with one source file: without and with routes and labels,
\* with a static label named as the label of the buckets of a histogram,
\* and with RelabelQuantile
DispatchConfigs ==
    {[n \in {"nginx"} |->
        NamespaceConfig(<<"nginx">>, <<"access.log">>, <<>>, <<>>, <<>>)],
     [n \in {"nginx"} |->
        NamespaceConfig(<<"nginx">>, <<"access.log">>,
                        <<[name |-> <<"env">>, value |-> <<"prod">>]>>,
                        <<RelabelCode>>, <<RuleApi, RuleRoot>>)],
     [n \in {"nginx"} |->
        NamespaceConfig(<<"nginx">>, <<"access.log">>,
                        <<[name |-> bucketLabel, value |-> <<"1">>]>>,
                        <<>>, <<>>)],
     [n \in {"nginx"} |->
        NamespaceConfig(<<"nginx">>, <<"access.log">>, <<>>,
                        <<RelabelQuantile>>, <<>>)]}

\* a static label and route rules
NsNginx ==
    NamespaceConfig(<<"nginx">>, <<"access.log">>,
                    <<[name |-> <<"env">>, value |-> <<"prod">>]>>,
                    <<>>, <<RuleApi, RuleRoot>>)

\* one file and a relabel rule
NsApp == NamespaceConfig(<<"app">>, <<"app.log">>, <<>>, <<RelabelCode>>, <<>>)

\* one file, the name of NsNginx
NsNginxAgain ==
    NamespaceConfig(<<"nginx">>, <<"other.log">>, <<>>, <<>>, <<>>)

\* one file and a static label under the name of an intrinsic one
NsInvalid ==
    NamespaceConfig(<<"bad">>, <<"bad.log">>,
                    <<[name |-> StatusLabel, value |-> <<"x">>]>>, <<>>, <<>>)

\* one file and a name that makes no metric name: my-app
NsDash ==
    NamespaceConfig(<<"my", "-", "app">>, <<"my.log">>, <<>>, <<>>, <<>>)

\* no name and no file: the six vectors go by their bare metric names
NsNoName == NamespaceConfig(Empty, <<>>, <<>>, <<>>, <<>>)

\* one file and a static label whose name is no label name: my-label
NsBadLabel ==
    NamespaceConfig(<<"lab">>, <<"lab.log">>,
                    <<[name |-> <<"my", "-", "label">>, value |-> <<"x">>]>>,
                    <<>>, <<>>)

\* one file and a relabel rule whose target is a reserved name: __name__
NsReserved ==
    NamespaceConfig(<<"res">>, <<"res.log">>, <<>>,
                    <<[TargetLabel |-> <<"_", "_", "name", "_", "_">>,
                       SourceValue |-> "status", Whitelist |-> {}]>>,
                    <<>>)

\* cfg.Namespaces in list order: two namespaces of different schemas, two
\* namespaces of one name, no namespace, and the namespaces whose vectors
\* the registry refuses or holds for the handler
MainConfigs ==
    {<<NsNginx, NsApp>>, <<NsNginx, NsNginxAgain>>, <<>>, <<NsInvalid>>,
     <<NsDash>>, <<NsNoName>>, <<NsBadLabel>>, <<NsReserved>>}

\* a line whose bytes are negative
NegativeEntry == [BytesEntry EXCEPT !["body_bytes_sent"] = TextMinus5]

\* the lines of SpecIngest hold no time, as those of SpecConc
IngestLines == {ParseError, BytesEntry, NegativeEntry}

\* the lines of SpecProcess, all parsed
ProcessLines == {FullEntry}

ScrapeConfigs == {<<NsApp>>}

ScrapeLines == {ParseError, BytesEntry}

\* two files and no label of its own
NsWeb == NamespaceConfig(<<"web">>, <<"a.log", "b.log">>, <<>>, <<>>, <<>>)

\* one namespace with two files
IngestConfigs == {<<NsWeb>>}

\* the ingestors of IngestConfigs
IngestIds == {<<1, 1>>, <<1, 2>>}

----------------------------------------------------------------------------
(* Specifications: the same program over sets of inputs *)

\* the numeric texts of every specification but SpecDispatch (512, 0.5 and
\* 0.005) are read alike by both toolchains and none of their labels is
\* quantile: those specifications take one build
OneBuild == {[go |-> "go1.13", client |-> "child"]}

Init == InitWith(OneBuild, LabelConfigs, Formats(LabelLines))

Next ==
    \/ \E n \in Namespaces : MetricsInit(n)
    \/ \E n \in Namespaces : MustRegister(n)
    \/ \E n \in Namespaces, ok \in BOOLEAN : TailFile(n, ok)
    \/ \E i \in Ingestors : IngestorStart(i[1], i[2])
    \/ \E i \in Ingestors, line \in LabelLines : Receive(i[1], i[2], line)
    \/ \E i \in Ingestors : CountChild(i[1], i[2])
    \/ \E i \in Ingestors : IncCount(i[1], i[2])
    \/ \E i \in Ingestors : BytesChild(i[1], i[2])
    \/ \E i \in Ingestors : AddBytes(i[1], i[2])
    \/ \E i \in Ingestors : UpstreamChild(i[1], i[2])
    \/ \E i \in Ingestors : ObserveUpstream(i[1], i[2])
    \/ \E i \in Ingestors : UpstreamHistChild(i[1], i[2])
    \/ \E i \in Ingestors : ObserveUpstreamHist(i[1], i[2])
    \/ \E i \in Ingestors : ResponseChild(i[1], i[2])
    \/ \E i \in Ingestors : ObserveResponse(i[1], i[2])
    \/ \E i \in Ingestors : ResponseHistChild(i[1], i[2])
    \/ \E i \in Ingestors : ObserveResponseHist(i[1], i[2])

Spec == Init /\ [][Next]_vars

InitDispatch == InitWith(Builds, DispatchConfigs, Formats(DispatchLines))

NextDispatch ==
    \/ \E n \in Namespaces : MetricsInit(n)
    \/ \E n \in Namespaces : MustRegister(n)
    \/ \E n \in Namespaces, ok \in BOOLEAN : TailFile(n, ok)
    \/ \E i \in Ingestors : IngestorStart(i[1], i[2])
    \/ \E i \in Ingestors, line \in DispatchLines : Receive(i[1], i[2], line)
    \/ \E i \in Ingestors : CountChild(i[1], i[2])
    \/ \E i \in Ingestors : IncCount(i[1], i[2])
    \/ \E i \in Ingestors : BytesChild(i[1], i[2])
    \/ \E i \in Ingestors : AddBytes(i[1], i[2])
    \/ \E i \in Ingestors : UpstreamChild(i[1], i[2])
    \/ \E i \in Ingestors : ObserveUpstream(i[1], i[2])
    \/ \E i \in Ingestors : UpstreamHistChild(i[1], i[2])
    \/ \E i \in Ingestors : ObserveUpstreamHist(i[1], i[2])
    \/ \E i \in Ingestors : ResponseChild(i[1], i[2])
    \/ \E i \in Ingestors : ObserveResponse(i[1], i[2])
    \/ \E i \in Ingestors : ResponseHistChild(i[1], i[2])
    \/ \E i \in Ingestors : ObserveResponseHist(i[1], i[2])

SpecDispatch == InitDispatch /\ [][NextDispatch]_vars

InitConc == InitWith(OneBuild, ConcConfigs, Formats(ConcLines))

NextConc ==
    \/ \E n \in Namespaces : MetricsInit(n)
    \/ \E n \in Namespaces : MustRegister(n)
    \/ \E n \in Namespaces, ok \in BOOLEAN : TailFile(n, ok)
    \/ \E i \in Ingestors : IngestorStart(i[1], i[2])
    \/ \E i \in Ingestors, line \in ConcLines : Receive(i[1], i[2], line)
    \/ \E i \in Ingestors : CountChild(i[1], i[2])
    \/ \E i \in Ingestors : IncCount(i[1], i[2])
    \/ \E i \in Ingestors : BytesChild(i[1], i[2])
    \/ \E i \in Ingestors : AddBytes(i[1], i[2])
    \/ \E i \in Ingestors : UpstreamChild(i[1], i[2])
    \/ \E i \in Ingestors : ResponseChild(i[1], i[2])

SpecConc == InitConc /\ [][NextConc]_vars

\* the whole of main from line 142 on
InitProcess == InitMain(OneBuild, MainConfigs, Formats(ProcessLines))

NextProcess ==
    \/ \E ok \in BOOLEAN : NewConsulRegistrator(ok)
    \/ \E ok \in BOOLEAN : RegisterConsul(ok)
    \/ Notify
    \/ SpawnNamespace
    \/ Handler
    \/ \E ok \in BOOLEAN : ListenAndServe(ok)
    \/ Signal
    \/ HandlerReceive
    \/ \E ok \in BOOLEAN : UnregisterConsul(ok)
    \/ HandlerExit
    \/ \E n \in Namespaces : MetricsInit(n)
    \/ \E n \in Namespaces : MustRegister(n)
    \/ \E n \in Namespaces, ok \in BOOLEAN : TailFile(n, ok)
    \/ \E i \in Ingestors : IngestorStart(i[1], i[2])
    \/ \E i \in Ingestors, line \in ProcessLines : Receive(i[1], i[2], line)
    \/ \E i \in Ingestors : CountChild(i[1], i[2])
    \/ \E i \in Ingestors : IncCount(i[1], i[2])
    \/ \E i \in Ingestors : BytesChild(i[1], i[2])
    \/ \E i \in Ingestors : AddBytes(i[1], i[2])
    \/ \E i \in Ingestors : UpstreamChild(i[1], i[2])
    \/ \E i \in Ingestors : ObserveUpstream(i[1], i[2])
    \/ \E i \in Ingestors : UpstreamHistChild(i[1], i[2])
    \/ \E i \in Ingestors : ObserveUpstreamHist(i[1], i[2])
    \/ \E i \in Ingestors : ResponseChild(i[1], i[2])
    \/ \E i \in Ingestors : ObserveResponse(i[1], i[2])
    \/ \E i \in Ingestors : ResponseHistChild(i[1], i[2])
    \/ \E i \in Ingestors : ObserveResponseHist(i[1], i[2])

SpecProcess == InitProcess /\ [][NextProcess]_vars

\* the handler goroutine is scheduled: it takes a signal that is in
\* exitChan, and after the call of line 159 has returned it reaches line
\* 160; nothing is assumed of the call itself
FairProcess ==
    /\ SpecProcess
    /\ WF_vars(HandlerReceive)
    /\ WF_vars(HandlerExit)

\* the ingestors of one namespace after the namespace loop of main, with
\* the server of lines 266-267 and the requests to its endpoint
InitIngest == InitWith(OneBuild, IngestConfigs, Formats(IngestLines))

NextIngest ==
    \/ Handler
    \/ \E ok \in BOOLEAN : ListenAndServe(ok)
    \/ Scrape
    \/ \E name \in DOMAIN registry : Collect(name)
    \/ \E ch \in scraped.write : Write(ch[1], ch[2])
    \/ \E n \in Namespaces : MetricsInit(n)
    \/ \E n \in Namespaces : MustRegister(n)
    \/ \E n \in Namespaces, ok \in BOOLEAN : TailFile(n, ok)
    \/ \E i \in Ingestors : IngestorStart(i[1], i[2])
    \/ \E i \in Ingestors, line \in IngestLines : Receive(i[1], i[2], line)
    \/ \E i \in Ingestors : CountChild(i[1], i[2])
    \/ \E i \in Ingestors : IncCount(i[1], i[2])
    \/ \E i \in Ingestors : BytesChild(i[1], i[2])
    \/ \E i \in Ingestors : AddBytes(i[1], i[2])
    \/ \E i \in Ingestors : UpstreamChild(i[1], i[2])
    \/ \E i \in Ingestors : ResponseChild(i[1], i[2])

SpecIngest == InitIngest /\ [][NextIngest]_vars

\* every ingestor goroutine that is inside its loop body is scheduled
FairIngest ==
    /\ SpecIngest
    /\ \A i \in IngestIds :
          WF_vars(IF i \in Ingestors THEN DispatchStep(i[1], i[2])
                  ELSE FALSE)

\* the same with one namespace and the requests to the endpoint; the lines
\* hold no time, so that the steps on the summaries and histograms, which
\* are never enabled, are left out
InitScrape == InitMain(OneBuild, ScrapeConfigs, Formats(ScrapeLines))

NextScrape ==
    \/ \E ok \in BOOLEAN : NewConsulRegistrator(ok)
    \/ \E ok \in BOOLEAN : RegisterConsul(ok)
    \/ Notify
    \/ SpawnNamespace
    \/ Handler
    \/ \E ok \in BOOLEAN : ListenAndServe(ok)
    \/ Scrape
    \/ \E name \in DOMAIN registry : Collect(name)
    \/ \E ch \in scraped.write : Write(ch[1], ch[2])
    \/ Signal
    \/ HandlerReceive
    \/ \E ok \in BOOLEAN : UnregisterConsul(ok)
    \/ HandlerExit
    \/ \E n \in Namespaces : MetricsInit(n)
    \/ \E n \in Namespaces : MustRegister(n)
    \/ \E n \in Namespaces, ok \in BOOLEAN : TailFile(n, ok)
    \/ \E i \in Ingestors : IngestorStart(i[1], i[2])
    \/ \E i \in Ingestors, line \in ScrapeLines : Receive(i[1], i[2], line)
    \/ \E i \in Ingestors : CountChild(i[1], i[2])
    \/ \E i \in Ingestors : IncCount(i[1], i[2])
    \/ \E i \in Ingestors : BytesChild(i[1], i[2])
    \/ \E i \in Ingestors : AddBytes(i[1], i[2])
    \/ \E i \in Ingestors : UpstreamChild(i[1], i[2])
    \/ \E i \in Ingestors : ResponseChild(i[1], i[2])

SpecScrape == InitScrape /\ [][NextScrape]_vars

----------------------------------------------------------------------------
(* Vocabulary of the properties, stated on the declared configuration *)

\* the positions before a WithLabelValues, and before the Inc, Add or
\* Observe on the child it returned
ChildPcs ==
    {"count", "bytes", "upstream", "upstreamHist", "response", "responseHist"}

UpdatePcs ==
    {"countInc", "bytesAdd", "upstreamObserve", "upstreamHistObserve",
     "responseObserve", "responseHistObserve"}

DispatchPcs == ChildPcs \cup UpdatePcs

\* the ingestor is inside the metric dispatch of its current line
Dispatching(i) == pc[i[1]][i[2]] \in DispatchPcs

\* the goroutine of the ingestor has built its label buffer
Born(i) == pc[i[1]][i[2]] \notin {"unborn", "start"}

Routed(c) == c.RouteRules # <<>>

\* slots before the static label values: method, status and, if there are
\* route rules, the route
Intrinsic(c) == IF Routed(c) THEN 3 ELSE 2

StaticSlot(c, k) == Intrinsic(c) + k

RelabelSlot(c, j) == Intrinsic(c) + Len(c.Labels) + j

ExpectedNames(c) ==
    <<<<"method">>, <<"status">>>>
      \o (IF Routed(c) THEN <<<<"request", "_", "uri">>>> ELSE <<>>)
      \o [k \in 1..Len(c.Labels) |-> c.Labels[k].name]
      \o [j \in 1..Len(c.RelabelRules) |-> c.RelabelRules[j].TargetLabel]

VecNames ==
    {"countTotal", "bytesTotal", "upstreamSeconds", "upstreamSecondsHist",
     "responseSeconds", "responseSecondsHist"}

\* the label vectors some update of namespace n was made with
UsedVectors(n) == UNION {DOMAIN metrics[n][v] : v \in VecNames}

\* the text before the first space
FirstToken(s) ==
    LET stops == {k \in 1..Len(s) : s[k] = SP}
        stop == IF stops = {} THEN Len(s) + 1
                ELSE CHOOSE k \in stops : \A m \in stops : k <= m
    IN  SubSeq(s, 1, stop - 1)

\* the values slot k may hold for entry e under configuration c
SlotValues(c, e, k) ==
    IF k = 1 THEN {UNKNOWN} \cup
                  (IF "request" \in DOMAIN e THEN {FirstToken(e["request"])}
                   ELSE {})
    ELSE IF k = 2 THEN {ZERO} \cup
                  (IF "status" \in DOMAIN e THEN {e["status"]} ELSE {})
    ELSE IF k = 3 /\ Routed(c)
    THEN {Empty} \cup {c.RouteRules[r].name : r \in 1..Len(c.RouteRules)}
    ELSE IF k <= Intrinsic(c) + Len(c.Labels)
    THEN {c.Labels[k - Intrinsic(c)].value}
    ELSE LET rule == c.RelabelRules[k - Intrinsic(c) - Len(c.Labels)]
         IN  {Empty, OtherValue} \cup
             (IF rule.SourceValue \in DOMAIN e THEN {e[rule.SourceValue]}
              ELSE {})

----------------------------------------------------------------------------
(* C1 *)

\* C1: the label values of every ingestor are as many as the label names
\* the vectors of its namespace were registered with, which are method,
\* status, request_uri iff there are route rules, the static names and the
\* relabel targets in declared order; the static slots hold the static
\* values, during the dispatch of a line every slot holds a value of the
\* kind its name stands for, and every vector used in an update has that
\* length and those static values.
C1_LabelVectorAligned ==
    \A i \in Ingestors :
        Born(i) =>
            LET c == cfg[i[1]]
                lv == labelValues[i[1]][i[2]]
            IN  /\ labels[i[1]] = ExpectedNames(c)
                /\ Len(lv) = Len(labels[i[1]])
                /\ \A k \in 1..Len(c.Labels) :
                       /\ labels[i[1]][StaticSlot(c, k)] = c.Labels[k].name
                       /\ lv[StaticSlot(c, k)] = c.Labels[k].value
                /\ \A j \in 1..Len(c.RelabelRules) :
                       labels[i[1]][RelabelSlot(c, j)] =
                           c.RelabelRules[j].TargetLabel
                /\ Dispatching(i) =>
                       \A k \in 1..Len(lv) :
                           lv[k] \in SlotValues(c, entry[i[1]][i[2]], k)
                /\ \A used \in UsedVectors(i[1]) :
                       /\ Len(used) = Len(labels[i[1]])
                       /\ \A k \in 1..Len(c.Labels) :
                              used[StaticSlot(c, k)] = c.Labels[k].value

\* a second line is being dispatched in a namespace with route rules, static
\* labels and relabel rules, after an update was made for the first
C1_Witness ==
    \E i \in Ingestors :
        /\ pc[i[1]][i[2]] = "count"
        /\ nlines[i[1]][i[2]] = 2
        /\ Routed(cfg[i[1]])
        /\ Len(cfg[i[1]].Labels) = 2
        /\ Len(cfg[i[1]].RelabelRules) = 2
        /\ metrics[i[1]].countTotal # EmptyVec

----------------------------------------------------------------------------
(* C2, C3 *)

\* the request of entry e holds a path and a rule of c matches it
PathMatched(c, e) ==
    /\ "request" \in DOMAIN e
    /\ Len(Split(e["request"], SP)) >= 2
    /\ \E r \in 1..Len(c.RouteRules) :
          HasPrefix(Split(e["request"], SP)[2], c.RouteRules[r].pattern)

\* C2: with route rules, while the updates of a parsed line without a
\* request field are made the route slot is empty, whatever came before;
\* and no line inherits a route: the slot is empty too while the updates of
\* a line are made whose path no rule matches.
C2_RouteEmptyWithoutRequest ==
    \A i \in Ingestors :
        /\ (/\ Dispatching(i)
             /\ Routed(cfg[i[1]])
             /\ "request" \notin DOMAIN entry[i[1]][i[2]])
            => labelValues[i[1]][i[2]][3] = Empty
        /\ (/\ Dispatching(i)
             /\ Routed(cfg[i[1]])
             /\ ~PathMatched(cfg[i[1]], entry[i[1]][i[2]]))
            => labelValues[i[1]][i[2]][3] = Empty

\* with route rules, the second parsed line of a file has no request field
\* and its updates are made with an empty route slot, one line having been
\* counted before it
C2_Witness ==
    \E i \in Ingestors :
        /\ Routed(cfg[i[1]])
        /\ pc[i[1]][i[2]] = "bytes"
        /\ nlines[i[1]][i[2]] = 2
        /\ errlog[i[1]][i[2]] = 0
        /\ "request" \notin DOMAIN entry[i[1]][i[2]]
        /\ "status" \in DOMAIN entry[i[1]][i[2]]
        /\ labelValues[i[1]][i[2]][3] = Empty
        /\ \E used \in DOMAIN metrics[i[1]].countTotal :
              metrics[i[1]].countTotal[used] = Whole(2)

\* the step of ingestor i that takes a line whose parse succeeded
TakesParsedLine(i) ==
    /\ nlines'[i[1]][i[2]] = nlines[i[1]][i[2]] + 1
    /\ errlog'[i[1]][i[2]] = errlog[i[1]][i[2]]

\* C3: with route rules, taking a parsed line whose request has fewer than
\* two space-separated tokens leaves the process running and the ingestor
\* at the updates of that line, with an empty route slot.
C3_ShortRequestSurvives ==
    [][\A i \in Ingestors :
          (/\ TakesParsedLine(i)
           /\ Routed(cfg[i[1]])
           /\ "request" \in DOMAIN entry'[i[1]][i[2]]
           /\ Len(Split(entry'[i[1]][i[2]]["request"], SP)) < 2)
          => /\ procState' = "running"
             /\ pc'[i[1]][i[2]] = "count"
             /\ labelValues'[i[1]][i[2]][3] = Empty]_vars

----------------------------------------------------------------------------
(* C4 *)

\* the step in which ingestor i prints a parse error
LogsParseError(i) == errlog'[i[1]][i[2]] = errlog[i[1]][i[2]] + 1

\* C4: the step that takes a line the parser rejects changes no vector of
\* any namespace, keeps the process running and the ingestor at the head of
\* its loop, and changes nothing of any other ingestor; from the head of the
\* loop the next line event of the file can be taken, whatever the parser
\* of the namespace makes of it.
C4_ParseErrorSkipsLine ==
    /\ [][\A i \in Ingestors :
            LogsParseError(i) =>
               /\ metrics' = metrics
               /\ procState' = "running"
               /\ pc'[i[1]][i[2]] = "idle"
               /\ nlines'[i[1]][i[2]] = nlines[i[1]][i[2]] + 1
               /\ labelValues' = labelValues
               /\ \A j \in Ingestors \ {i} :
                     /\ pc'[j[1]][j[2]] = pc[j[1]][j[2]]
                     /\ entry'[j[1]][j[2]] = entry[j[1]][j[2]]
                     /\ nlines'[j[1]][j[2]] = nlines[j[1]][j[2]]
                     /\ errlog'[j[1]][j[2]] = errlog[j[1]][j[2]]]_vars
    /\ [](\A i \in Ingestors :
            (/\ errlog[i[1]][i[2]] > 0
             /\ entry[i[1]][i[2]] = NilEntry
             /\ Running
             /\ nlines[i[1]][i[2]] < MaxLines
             /\ TotalLines < MaxTotalLines)
            => \A line \in ConcLines :
                  Parses(cfg[i[1]].Format, line) =>
                     ENABLED Receive(i[1], i[2], line))

\* after a parse error in one file, that file's next line is counted while
\* another ingestor is in the middle of its own line
C4_Witness ==
    \E i \in Ingestors, j \in Ingestors :
        /\ i # j
        /\ errlog[i[1]][i[2]] = 1
        /\ nlines[i[1]][i[2]] = 2
        /\ pc[i[1]][i[2]] = "bytes"
        /\ pc[j[1]][j[2]] = "bytesAdd"

----------------------------------------------------------------------------
(* C5, C6, C7, C8 *)

\* C5: while the updates of a parsed line are made, slot 0 is the first
\* space-delimited token of the line's request field, or "UNKNOWN" without
\* that field, and slot 1 is the line's status field, or "0" without it.
C5_MethodAndStatus ==
    \A i \in Ingestors :
        Dispatching(i) =>
            LET e == entry[i[1]][i[2]]
                lv == labelValues[i[1]][i[2]]
            IN  /\ lv[1] = IF "request" \in DOMAIN e
                           THEN FirstToken(e["request"]) ELSE UNKNOWN
                /\ lv[2] = IF "status" \in DOMAIN e
                           THEN e["status"] ELSE ZERO

\* under a format without request and status the second line of a file is
\* dispatched after the first was counted under the defaults
C5_Witness ==
    \E i \in Ingestors :
        /\ pc[i[1]][i[2]] = "count"
        /\ nlines[i[1]][i[2]] = 2
        /\ DOMAIN entry[i[1]][i[2]] = {}
        /\ \E used \in DOMAIN metrics[i[1]].countTotal :
               used[1] = UNKNOWN /\ used[2] = ZERO

\* C6: without route rules, a parsed line whose request field is the empty
\* text is dispatched with the method label "UNKNOWN".
C6_EmptyRequestIsUnknown ==
    \A i \in Ingestors :
        (/\ Dispatching(i)
         /\ ~Routed(cfg[i[1]])
         /\ "request" \in DOMAIN entry[i[1]][i[2]]
         /\ entry[i[1]][i[2]]["request"] = Empty)
        => labelValues[i[1]][i[2]][1] = UNKNOWN

\* the rules of c whose pattern matches the path
MatchingRules(c, path) ==
    {r \in 1..Len(c.RouteRules) : HasPrefix(path, c.RouteRules[r].pattern)}

\* the name of the lowest-indexed matching rule, or the empty text
FirstMatch(c, path) ==
    IF MatchingRules(c, path) = {} THEN Empty
    ELSE c.RouteRules[CHOOSE r \in MatchingRules(c, path) :
                         \A q \in MatchingRules(c, path) : r <= q].name

\* C7: with route rules, while the updates of a parsed line with a request
\* field are made, the route slot is the name of the lowest-indexed rule
\* matching the second space-delimited token, or empty if no rule matches.
C7_FirstMatchWins ==
    \A i \in Ingestors :
        (/\ Dispatching(i)
         /\ Routed(cfg[i[1]])
         /\ "request" \in DOMAIN entry[i[1]][i[2]])
        => /\ Len(Split(entry[i[1]][i[2]]["request"], SP)) >= 2
           /\ labelValues[i[1]][i[2]][3] =
                  FirstMatch(cfg[i[1]],
                             Split(entry[i[1]][i[2]]["request"], SP)[2])

\* a path that both rules match is dispatched under the first rule's name
C7_Witness ==
    \E i \in Ingestors :
        /\ pc[i[1]][i[2]] = "count"
        /\ cfg[i[1]].RouteRules = <<RuleApi, RuleRoot>>
        /\ "request" \in DOMAIN entry[i[1]][i[2]]
        /\ Cardinality(MatchingRules(cfg[i[1]],
               Split(entry[i[1]][i[2]]["request"], SP)[2])) = 2
        /\ labelValues[i[1]][i[2]][3] = <<"api">>

\* the value of relabel rule j for entry e, case by case
ExpectedRelabel(rule, e) ==
    IF rule.SourceValue \notin DOMAIN e THEN Empty
    ELSE IF rule.Whitelist # {} /\ e[rule.SourceValue] \notin rule.Whitelist
    THEN OtherValue
    ELSE e[rule.SourceValue]

\* C8: while the updates of a parsed line are made, the slot of every
\* relabel rule holds: empty if the line lacks the rule's source field,
\* "other" if the rule has a whitelist without the value, else the value.
C8_RelabelValues ==
    \A i \in Ingestors :
        Dispatching(i) =>
            \A j \in 1..Len(cfg[i[1]].RelabelRules) :
                labelValues[i[1]][i[2]][RelabelSlot(cfg[i[1]], j)] =
                    ExpectedRelabel(cfg[i[1]].RelabelRules[j],
                                    entry[i[1]][i[2]])

\* a whitelisted rule collapses "c" to "other" while a rule without a
\* whitelist keeps its value, on a line after one whose user was kept
C8_Witness ==
    \E i \in Ingestors :
        /\ pc[i[1]][i[2]] = "count"
        /\ nlines[i[1]][i[2]] = 2
        /\ cfg[i[1]].RelabelRules = <<RelabelUser, RelabelCode>>
        /\ labelValues[i[1]][i[2]][RelabelSlot(cfg[i[1]], 1)] = OtherValue
        /\ labelValues[i[1]][i[2]][RelabelSlot(cfg[i[1]], 2)] = Status200
        /\ \E used \in DOMAIN metrics[i[1]].countTotal :
               used[RelabelSlot(cfg[i[1]], 1)] = <<"a">>

----------------------------------------------------------------------------
(* C9 *)

\* the float64 nearest to the number each numeric text of the inputs stands
\* for; a number beyond the range of float64 has none
Numbers ==
    (Text512 :> Whole(512)) @@ (TextMinus5 :> Whole(-5))
      @@ (TextHalf :> Fin[FALSE, <<1>>, -1])
      @@ (Text5Thousandths :> Fin[FALSE, <<5243, 3932, 27525, 163>>, -60])
      @@ (Text1e3 :> Whole(1000))
      @@ (TextNaN :> NaN)
      @@ (TextInf :> Inf(FALSE))
      @@ (TextMixedInf :> Inf(FALSE))
      @@ (TextMixedNaN :> NaN)
      @@ (Text1eMinus400 :> Whole(0))
      @@ (TextLong :> Whole(1234567890))
      @@ (Text2000 :> Fin[FALSE, <<5243, 3932, 16389, 62>>, -40])

\* the texts that are numbers from Go 1.13 on
LaterNumbers ==
    (TextHex :> Fin[FALSE, <<1>>, -2]) @@ (TextUnderscore :> Whole(1000))

NumberOf == IF build.go = "go1.13" THEN Numbers @@ LaterNumbers ELSE Numbers

Numeric(e, name) == name \in DOMAIN e /\ e[name] \in DOMAIN NumberOf

\* new is old with the child of lv, which starts at zero
ChildMade(old, new, lv, zero) ==
    /\ DOMAIN new = DOMAIN old \cup {lv}
    /\ lv \notin DOMAIN old => new[lv] = zero
    /\ \A o \in DOMAIN old : new[o] = old[o]

\* new is old with x added to the child of lv
CounterPlus(old, new, lv, x) ==
    /\ lv \in DOMAIN old
    /\ DOMAIN new = DOMAIN old
    /\ new[lv] = Plus(old[lv], x)
    /\ \A o \in DOMAIN old \ {lv} : new[o] = old[o]

\* new is old with one more observation x in the child of lv
ObservedPlus(old, new, lv, x) ==
    /\ lv \in DOMAIN old
    /\ DOMAIN new = DOMAIN old
    /\ new[lv].count = old[lv].count + 1
    /\ new[lv].sum = Plus(old[lv].sum, x)
    /\ \A o \in DOMAIN old \ {lv} : new[o] = old[o]

OthersUnchanged(n, v) ==
    \A w \in VecNames \ {v} : metrics'[n][w] = metrics[n][w]

\* ingestor i leaves position p in this step
Leaves(i, p) == pc[i[1]][i[2]] = p /\ pc'[i[1]][i[2]] # p

\* the step of ingestor i from position p gets the child of vector vec and
\* goes on to position q
GetsChild(i, p, vec, zero, q) ==
    Leaves(i, p) =>
        /\ pc'[i[1]][i[2]] = q
        /\ ChildMade(metrics[i[1]][vec], metrics'[i[1]][vec],
                     labelValues[i[1]][i[2]], zero)
        /\ OthersUnchanged(i[1], vec)

\* the step of ingestor i from position p gets the child of vector vec and
\* goes on to q if the field is a number, and else does nothing and goes on
\* to r
GetsChildIfNumeric(i, p, field, vec, zero, q, r) ==
    Leaves(i, p) =>
        IF Numeric(entry[i[1]][i[2]], field)
        THEN GetsChild(i, p, vec, zero, q)
        ELSE pc'[i[1]][i[2]] = r /\ metrics' = metrics

\* the step of ingestor i from position p adds x to the counter vec and
\* goes on to position q
Adds(i, p, vec, x, q) ==
    Leaves(i, p) =>
        /\ pc'[i[1]][i[2]] = q
        /\ CounterPlus(metrics[i[1]][vec], metrics'[i[1]][vec],
                       labelValues[i[1]][i[2]], x)
        /\ OthersUnchanged(i[1], vec)

\* the step of ingestor i from position p observes the number of the field
\* into vec and goes on to position q
Observes(i, p, vec, field, q) ==
    Leaves(i, p) =>
        /\ pc'[i[1]][i[2]] = q
        /\ ObservedPlus(metrics[i[1]][vec], metrics'[i[1]][vec],
                        labelValues[i[1]][i[2]],
                        NumberOf[entry[i[1]][i[2]][field]])
        /\ OthersUnchanged(i[1], vec)

\* what the steps of the dispatch of one line do, for the only ingestor
DispatchSteps(i) ==
    /\ GetsChild(i, "count", "countTotal", ZeroCounter, "countInc")
    /\ Adds(i, "countInc", "countTotal", Whole(1), "bytes")
    /\ GetsChildIfNumeric(i, "bytes", "body_bytes_sent", "bytesTotal",
                          ZeroCounter, "bytesAdd", "upstream")
    /\ Leaves(i, "bytesAdd") =>
           Adds(i, "bytesAdd", "bytesTotal",
                NumberOf[entry[i[1]][i[2]]["body_bytes_sent"]], "upstream")
    /\ GetsChildIfNumeric(i, "upstream", "upstream_response_time",
                          "upstreamSeconds", ZeroObserver,
                          "upstreamObserve", "response")
    /\ Observes(i, "upstreamObserve", "upstreamSeconds",
                "upstream_response_time", "upstreamHist")
    /\ GetsChild(i, "upstreamHist", "upstreamSecondsHist", ZeroObserver,
                 "upstreamHistObserve")
    /\ Observes(i, "upstreamHistObserve", "upstreamSecondsHist",
                "upstream_response_time", "response")
    /\ GetsChildIfNumeric(i, "response", "request_time", "responseSeconds",
                          ZeroObserver, "responseObserve", "idle")
    /\ Observes(i, "responseObserve", "responseSeconds", "request_time",
                "responseHist")
    /\ GetsChild(i, "responseHist", "responseSecondsHist", ZeroObserver,
                 "responseHistObserve")
    /\ Observes(i, "responseHistObserve", "responseSecondsHist",
                "request_time", "idle")
    /\ Dispatching(i) =>
           /\ procState' = "running"
           /\ labelValues'[i[1]][i[2]] = labelValues[i[1]][i[2]]
           /\ entry'[i[1]][i[2]] = entry[i[1]][i[2]]
           /\ nlines'[i[1]][i[2]] = nlines[i[1]][i[2]]
    /\ ~Dispatching(i) => metrics' = metrics
    /\ TakesParsedLine(i) /\ procState' = "running" =>
           pc'[i[1]][i[2]] = "count"

\* lines of ingestor i that were parsed and counted
Counted(i) ==
    nlines[i[1]][i[2]] - errlog[i[1]][i[2]]
      - (IF pc[i[1]][i[2]] \in {"count", "countInc"} THEN 1 ELSE 0)

\* the integer a counter that was only incremented holds
WholeValue(v) == IF v.m = <<>> THEN 0 ELSE v.m[1] * Pow2(v.e)

CountSum(n) ==
    SumOver(DOMAIN metrics[n].countTotal,
            [lv \in DOMAIN metrics[n].countTotal |->
                WholeValue(metrics[n].countTotal[lv])])

\* C9: every parsed line passes once through increment, bytes, upstream and
\* response in that order, each update getting the child of the one label
\* vector and then changing it: the increment adds 1 to count-total,
\* bytes-total grows by the number iff body_bytes_sent is a number, the
\* upstream summary and then the upstream histogram are observed iff
\* upstream_response_time is a number, the response summary and then
\* histogram iff request_time is a number, each whatever the other two
\* fields are, and no step of the dispatch ends the process or changes the
\* label vector; so count-total sums to the number of parsed lines and each
\* histogram equals its summary between lines.
C9_IndependentDispatch ==
    /\ [][\A i \in Ingestors : DispatchSteps(i)]_vars
    /\ [](\A i \in Ingestors :
            /\ CountSum(i[1]) = Counted(i)
            /\ pc[i[1]][i[2]] = "idle" =>
                  /\ metrics[i[1]].upstreamSecondsHist =
                         metrics[i[1]].upstreamSeconds
                  /\ metrics[i[1]].responseSecondsHist =
                         metrics[i[1]].responseSeconds)

----------------------------------------------------------------------------
(* C10 *)

\* C10: under every interleaving, the children of count-total of a
\* namespace sum to the number of lines its ingestors parsed and counted;
\* and when its N ingestors are between lines, each having parsed M lines,
\* all resolved to one label vector, count-total for that vector is N * M.
C10_NoLostUpdates ==
    \A n \in Namespaces :
        /\ CountSum(n) =
               SumOver({i \in Ingestors : i[1] = n},
                       [i \in Ingestors |-> Counted(i)])
        /\ \A m \in 1..MaxLines :
               (/\ supState[n] = "done"
                /\ \A f \in Files(n) :
                       /\ pc[n][f] = "idle"
                       /\ nlines[n][f] - errlog[n][f] = m
                /\ Cardinality(DOMAIN metrics[n].countTotal) = 1)
               => \A v \in DOMAIN metrics[n].countTotal :
                      metrics[n].countTotal[v] =
                          Whole(Len(cfg[n].SourceFiles) * m)

\* every ingestor of a namespace with NumFiles files has dispatched two
\* lines without a parse error, all with one label vector
C10_Witness ==
    \E n \in Namespaces :
        /\ Len(cfg[n].SourceFiles) = NumFiles
        /\ \A f \in Files(n) :
               /\ pc[n][f] = "idle"
               /\ nlines[n][f] = 2
               /\ errlog[n][f] = 0
        /\ Cardinality(DOMAIN metrics[n].countTotal) = 1

----------------------------------------------------------------------------
(* C11 *)

\* the step is one of ingestor i: its position or its line count changes
StepOf(i) ==
    \/ pc'[i[1]][i[2]] # pc[i[1]][i[2]]
    \/ nlines'[i[1]][i[2]] # nlines[i[1]][i[2]]

\* the label vectors whose child of vector vec of namespace n is made or
\* changed by the step
Touched(n, vec) ==
    {lv \in DOMAIN metrics'[n][vec] :
        \/ lv \notin DOMAIN metrics[n][vec]
        \/ metrics'[n][vec][lv] # metrics[n][vec][lv]}

\* C11: under every interleaving of main, the supervisors and the
\* ingestors, a step of an ingestor of namespace A leaves the vectors of
\* every other namespace unchanged, and every child it makes or changes in
\* the vectors of A is the one of its own label vector, which has the length
\* of A's schema and holds in every slot a value A's static labels, route
\* rules and relabel rules give for the line.
C11_NoCrossContamination ==
    [][\A i \in Ingestors :
          StepOf(i) =>
             /\ \A m \in Namespaces \ {i[1]} : metrics'[m] = metrics[m]
             /\ \A vec \in VecNames :
                   \A lv \in Touched(i[1], vec) :
                      /\ lv = labelValues[i[1]][i[2]]
                      /\ Len(lv) = Len(ExpectedNames(cfg[i[1]]))
                      /\ \A k \in 1..Len(lv) :
                            lv[k] \in SlotValues(cfg[i[1]],
                                                 entry[i[1]][i[2]], k)]_vars

\* two namespaces of different schemas have both counted lines, under
\* label vectors of different lengths, and an ingestor is at an update
C11_Witness ==
    \E a \in Namespaces, b \in Namespaces :
        /\ a # b
        /\ metrics[a].countTotal # EmptyVec
        /\ metrics[b].responseSecondsHist # EmptyVec
        /\ \A la \in DOMAIN metrics[a].countTotal :
              \A lb \in DOMAIN metrics[b].countTotal : Len(la) # Len(lb)
        /\ \E f \in Files(a) : pc[a][f] = "bytes"

----------------------------------------------------------------------------
(* C12 *)

\* the positions of the loop body of lines 242-256 in program order
DispatchOrder ==
    <<"count", "countInc", "bytes", "bytesAdd",
      "upstream", "upstreamObserve", "upstreamHist", "upstreamHistObserve",
      "response", "responseObserve", "responseHist", "responseHistObserve">>

\* the place of a position in the loop body, 0 outside of it
PcRank(p) ==
    IF \E k \in DOMAIN DispatchOrder : DispatchOrder[k] = p
    THEN CHOOSE k \in DOMAIN DispatchOrder : DispatchOrder[k] = p
    ELSE 0

\* C12: an ingestor takes the next line of its file only at the head of its
\* loop, one line at a time; while the updates of a line are made the line,
\* the line count and the label vector of the ingestor stay as they are and
\* the updates go forward through count, bytes, upstream and response to
\* the head of the loop, so the updates of two lines of one file are never
\* interleaved.  (That files are not ordered among each other is the state
\* of C12_Witness.)
C12_LinesInDeliveryOrder ==
    [][\A i \in Ingestors :
          /\ nlines'[i[1]][i[2]] # nlines[i[1]][i[2]] =>
                /\ pc[i[1]][i[2]] = "idle"
                /\ nlines'[i[1]][i[2]] = nlines[i[1]][i[2]] + 1
          /\ Dispatching(i) =>
                /\ entry'[i[1]][i[2]] = entry[i[1]][i[2]]
                /\ nlines'[i[1]][i[2]] = nlines[i[1]][i[2]]
                /\ labelValues'[i[1]][i[2]] = labelValues[i[1]][i[2]]
                /\ pc'[i[1]][i[2]] # pc[i[1]][i[2]] =>
                      \/ pc'[i[1]][i[2]] = "idle"
                      \/ PcRank(pc'[i[1]][i[2]]) > PcRank(pc[i[1]][i[2]])]_vars

\* the ingestor of one file is inside the updates of its first line, which
\* it has counted, while the ingestor of a later opened file of the same
\* namespace has finished its second line
C12_Witness ==
    \E n \in Namespaces :
        \E f \in Files(n), g \in Files(n) :
            /\ f < g
            /\ pc[n][f] = "upstream"
            /\ nlines[n][f] = 1
            /\ pc[n][g] = "idle"
            /\ nlines[n][g] = 2
            /\ errlog[n][g] = 0
            /\ CountSum(n) = 3

----------------------------------------------------------------------------
(* C13 *)

LifecycleOrder ==
    {<<"unregistered", "registered">>, <<"registered", "deregistering">>,
     <<"deregistering", "terminated">>}

\* a signal was delivered to the subscribed process and has not yet led to
\* the exit
Signalled ==
    /\ consul \in {"registered", "deregistering"}
    /\ exitChan = 1 \/ handlerPc \in {"unregister", "exit"}

\* the lifecycle moves forward one state at a time; RegisterConsul is
\* called at most once and only with discovery enabled; UnregisterConsul is
\* called at most once, in Deregistering, which is entered from Registered
\* by taking a signal from exitChan; without discovery neither is called
DiscoveryCallsInOrder ==
    /\ [][consul' # consul => <<consul, consul'>> \in LifecycleOrder]_vars
    /\ [][consul' = "deregistering" /\ consul # "deregistering" =>
             exitChan = 1 /\ consulCalls.register = 1]_vars
    /\ [][consulCalls'.register # consulCalls.register =>
             consul = "unregistered" /\ consulCalls.register = 0]_vars
    /\ [][consulCalls'.unregister # consulCalls.unregister =>
             /\ consul = "deregistering"
             /\ consulCalls.register = 1
             /\ consulCalls.unregister = 0]_vars
    /\ [](consul = "disabled" =>
             consulCalls.register = 0 /\ consulCalls.unregister = 0)

\* C13 as stated: the calls are in order, and after the signal the process
\* always reaches the exit with status 0: it is not ended by the signal
\* itself or by a panic, and it does exit.
C13_SignalAlwaysExitsZero ==
    /\ DiscoveryCallsInOrder
    /\ [][(consul \in {"registered", "deregistering"}) =>
             procState' # "killed"]_vars
    /\ [][Signalled => procState' \in {"running", "exited"}]_vars
    /\ Signalled ~> (procState = "exited")

----------------------------------------------------------------------------
(* C14 *)

\* C14: the files of a namespace are opened in order and every file the
\* supervisor has got past has its ingestor, so a supervisor that is done
\* has an ingestor for every configured file; a file that fails to open
\* ends the process, and once the process has ended no vector, no ingestor
\* and no supervisor of any namespace changes any more.
C14_OpenFailureAborts ==
    /\ [](\A n \in Namespaces :
             /\ \A f \in Files(n) : f <= opened[n] <=> pc[n][f] # "unborn"
             /\ supState[n] = "done" => opened[n] = Len(cfg[n].SourceFiles))
    /\ [][\A n \in Namespaces :
             (/\ supState[n] = "tailing"
              /\ supState'[n] = "tailing"
              /\ opened'[n] = opened[n]
              /\ pc' = pc
              /\ nlines' = nlines
              /\ procState' # procState) => procState' = "panicked"]_vars
    /\ [][~Running =>
             /\ metrics' = metrics
             /\ pc' = pc
             /\ nlines' = nlines
             /\ opened' = opened
             /\ supState' = supState
             /\ procState' = procState]_vars

\* the second file of a namespace failed to open while the ingestor of the
\* first, which has counted a line, was inside the updates of a line
C14_Witness ==
    \E n \in Namespaces :
        /\ procState = "panicked"
        /\ supState[n] = "tailing"
        /\ opened[n] = 1
        /\ Len(cfg[n].SourceFiles) > 1
        /\ pc[n][1] = "bytes"
        /\ metrics[n].countTotal # EmptyVec

----------------------------------------------------------------------------
(* C15 *)

\* vector vec of namespace n keeps its children; no counter goes down
\* (a bytes-total that has taken in a NaN stays NaN) and no summary or
\* histogram loses an observation
KeepsChildren(n, vec) ==
    \A lv \in DOMAIN metrics[n][vec] :
        /\ lv \in DOMAIN metrics'[n][vec]
        /\ IF vec = "countTotal"
           THEN AtMost(metrics[n][vec][lv], metrics'[n][vec][lv])
           ELSE IF vec = "bytesTotal"
           THEN \/ AtMost(metrics[n][vec][lv], metrics'[n][vec][lv])
                \/ metrics'[n][vec][lv] = NaN
           ELSE metrics'[n][vec][lv].count >= metrics[n][vec][lv].count

\* what the request in flight has gathered so far is what the vectors hold
\* now: every sample of the response is the sample of its child, and every
\* child of a vector already collected is written or waits to be
Fresh ==
    /\ scraped.started
    /\ scraped.body \subseteq Exposition(metrics)
    /\ \A ch \in Children(metrics, DOMAIN registry \ scraped.collect) :
          \/ ch \in scraped.write
          \/ Sample(metrics, ch[1], ch[2]) \in scraped.body

\* C15: no step of a read of /metrics changes a vector; a read that begins
\* is fresh, a read stays fresh over every step that changes no vector, and
\* a fresh response, once complete, is the samples of the vectors as they
\* are, so two reads with no update in between return the same; a step in
\* which no ingestor moves changes no vector; and no step of the endpoint,
\* of an ingestor, of a supervisor or of the discovery lifecycle removes a
\* child of a vector, lowers a counter or takes an observation back.
C15_ReadsChangeNothing ==
    /\ [][scraped' # scraped => metrics' = metrics]_vars
    /\ [][(scraped' # scraped /\ scraped'.collect = DOMAIN registry) =>
             Fresh']_vars
    /\ [][(Fresh /\ metrics' = metrics) =>
             /\ Fresh'
             /\ Served' => scraped'.body = Exposition(metrics)]_vars
    /\ [][(pc' = pc /\ nlines' = nlines) => metrics' = metrics]_vars
    /\ [][\A n \in Namespaces :
             \A vec \in VecNames : KeepsChildren(n, vec)]_vars

\* a line was counted, read, and counted again under the same label vector,
\* and the read after that is complete and returned that second state,
\* which is still the state of the vectors, with the service registered for
\* discovery
C15_Witness ==
    /\ Served
    /\ Fresh
    /\ consul = "registered"
    /\ \E name \in DOMAIN registry :
          \E lv \in DOMAIN Collector(metrics, name) :
              /\ VecOf(name) = "countTotal"
              /\ Collector(metrics, name)[lv] = Whole(2)
              /\ Sample(metrics, name, lv) \in scraped.body
              /\ lv \in DOMAIN metrics[registry[name].ns].bytesTotal

----------------------------------------------------------------------------
(* C16 *)

SupervisorOrder ==
    {<<"unborn", "start">>, <<"start", "register">>,
     <<"register", "tailing">>, <<"register", "done">>,
     <<"tailing", "done">>}

\* all six vectors of namespace n are registered: Init has returned
IsRegistered(n) == supState[n] \in {"tailing", "done"}

\* the label schema of namespace n is compiled and the vectors are made
\* under its names
SchemaCompiled(n) ==
    /\ cfg[n] = MustCompile(cfg[n])
    /\ cfg[n].OrderedLabelNames =
           [k \in 1..Len(cfg[n].Labels) |-> cfg[n].Labels[k].name]
    /\ Len(cfg[n].RelabelConfigs) = Len(cfg[n].RelabelRules)
    /\ Len(cfg[n].Routes) = Len(cfg[n].RouteRules)
    /\ labels[n] = ExpectedNames(cfg[n])

\* namespace n has opened no file, has no ingestor and no child in a vector
NothingStarted(n) ==
    /\ opened[n] = 0
    /\ metrics[n] = NewMetrics
    /\ \A f \in Files(n) : pc[n][f] = "unborn"

\* the first k metric names under the name of namespace n
FirstNames(n, k) ==
    {BuildFQName(cfg[n].Name, MetricOrder[j]) : j \in 1..k}

\* the name under which namespace n registers its next vector
NextName(n) ==
    BuildFQName(cfg[n].Name, MetricOrder[Cardinality(RegisteredBy(n)) + 1])

\* the registry refuses the next vector of namespace n: its name or one of
\* its label names is invalid, a label name is there twice, or the name is
\* held already, for a namespace or for the handler
Refused(n) ==
    \/ ~IsValidMetricName(NextName(n))
    \/ ~ValidLabels(ExpectedNames(cfg[n]))
    \/ NextName(n) \in DOMAIN registry
    \/ NextName(n) \in HandlerHeld

\* C16: a supervisor goes start, schema compiled, six vectors registered,
\* files opened, never back.  Before the schema is compiled the namespace
\* has no label names and no name in the registry; from then on schema and
\* label names stay as they are; the names are registered one per step, in
\* the order of lines 98-103, each once and for good; until all six are
\* registered the namespace has no file opened, no ingestor and no child in
\* any vector, so every update is made on a registered vector.  A schema
\* with a label name twice or a label name the library rejects registers
\* nothing, as does a namespace whose name makes no metric name, and of two
\* namespaces of one name one registers nothing, opens no file and starts
\* no ingestor.  A registration the registry refuses ends the process in
\* that step, with the registry as it was and the namespace still without
\* file and ingestor; any other registration leaves the process running.
C16_StartupOrder ==
    /\ [][\A n \in Namespaces :
             /\ supState'[n] # supState[n] =>
                   <<supState[n], supState'[n]>> \in SupervisorOrder
             /\ supState[n] \notin {"unborn", "start"} =>
                   /\ labels'[n] = labels[n]
                   /\ cfg'[n] = cfg[n]
             /\ RegisteredBy(n) \subseteq (RegisteredBy(n))'
             /\ (RegisteredBy(n))' # RegisteredBy(n) =>
                   /\ supState[n] = "register"
                   /\ \E k \in DOMAIN MetricOrder :
                         /\ RegisteredBy(n) = FirstNames(n, k - 1)
                         /\ (RegisteredBy(n))' = FirstNames(n, k)]_vars
    /\ [](\A n \in Namespaces :
             /\ supState[n] \in {"unborn", "start"} =>
                   /\ labels[n] = <<>>
                   /\ RegisteredBy(n) = {}
             /\ supState[n] = "register" =>
                   /\ SchemaCompiled(n)
                   /\ \E k \in 0..(Len(MetricOrder) - 1) :
                         RegisteredBy(n) = FirstNames(n, k)
             /\ ~IsRegistered(n) => NothingStarted(n)
             /\ IsRegistered(n) =>
                   /\ SchemaCompiled(n)
                   /\ RegisteredBy(n) = FullNames(cfg[n])
             /\ ~ValidLabels(ExpectedNames(cfg[n])) => RegisteredBy(n) = {}
             /\ ~IsValidMetricName(BuildFQName(cfg[n].Name, MetricOrder[1])) =>
                   RegisteredBy(n) = {})
    /\ [](\A a \in Namespaces, b \in Namespaces :
             (a # b /\ cfg[a].Name = cfg[b].Name) =>
                 \/ RegisteredBy(a) = {} /\ ~IsRegistered(a)
                 \/ RegisteredBy(b) = {} /\ ~IsRegistered(b))
    /\ [][\A n \in Namespaces :
             MustRegister(n) =>
                IF Refused(n)
                THEN /\ procState' = "panicked"
                     /\ registry' = registry
                     /\ supState'[n] = "register"
                     /\ NothingStarted(n)'
                ELSE /\ procState' = "running"
                     /\ (RegisteredBy(n))' =
                            RegisteredBy(n) \cup {NextName(n)}]_vars
    /\ [][procState # "running" => UNCHANGED vars]_vars

\* of two namespaces of one name the one started second by main registered
\* first, opened its file and counted a line; the first registration of the
\* other then ended the process, with its schema compiled, none of its
\* vectors registered and no file of it opened
C16_Witness ==
    \E a \in Namespaces, b \in Namespaces :
        /\ a < b
        /\ cfg[a].Name = cfg[b].Name
        /\ IsRegistered(b)
        /\ \E lv \in DOMAIN metrics[b].countTotal :
              metrics[b].countTotal[lv] = Whole(1)
        /\ supState[a] = "register"
        /\ RegisteredBy(a) = {}
        /\ procState = "panicked"
        /\ opened[a] = 0

----------------------------------------------------------------------------
(* C17 *)

\* C17: with discovery enabled, while the service is not registered no
\* namespace goroutine is started, no vector is registered, no file is
\* opened and no line is taken, and a failed registration ends the process
\* in that state for good; so wherever a namespace goroutine exists, a file
\* is open or a line was taken, the lifecycle is Registered or later.
C17_RegistrationBeforeNamespaces ==
    /\ [](consul = "unregistered" =>
             /\ Spawned = {}
             /\ registry = <<>>
             /\ handlerPc = "none"
             /\ \A n \in Namespaces :
                   /\ opened[n] = 0
                   /\ labels[n] = <<>>
                   /\ metrics[n] = NewMetrics
             /\ \A i \in Ingestors :
                   /\ pc[i[1]][i[2]] = "unborn"
                   /\ nlines[i[1]][i[2]] = 0)
    /\ [](\A i \in Ingestors :
             (consul # "disabled" /\ pc[i[1]][i[2]] # "unborn") =>
                 consul \in {"registered", "deregistering", "terminated"})
    /\ [][(/\ consulCalls'.register = consulCalls.register + 1
           /\ consul' # "registered") =>
             /\ procState' = "panicked"
             /\ consul' = "unregistered"]_vars
    /\ [][(consul = "unregistered" /\ ~Running) => UNCHANGED vars]_vars

\* an ingestor is inside the updates of its second line with the service
\* registered
C17_Witness ==
    /\ consul = "registered"
    /\ \E i \in Ingestors :
          /\ pc[i[1]][i[2]] = "upstream"
          /\ nlines[i[1]][i[2]] = 2

----------------------------------------------------------------------------
(* C18 *)

\* ingestor i exists and is inside the loop body
InsideLine(i) == IF i \in Ingestors THEN Dispatching(i) ELSE FALSE

\* ingestor i is back at the head of its loop
AfterLine(i) == IF i \in Ingestors THEN pc[i[1]][i[2]] = "idle" ELSE FALSE

\* the process has ended and it is not the next update of ingestor i, the
\* addition of a negative number of bytes (line 245), that ends it
EndedByAnother(i) ==
    /\ ~Running
    /\ ~(/\ i \in Ingestors
         /\ pc[i[1]][i[2]] = "bytesAdd"
         /\ Negative(FloatField(entry[i[1]][i[2]], "body_bytes_sent").val))

\* every ingestor of a running process can make its next step: build its
\* label buffer, take a line its tail source holds, make its next update
NeverWaits ==
    \A i \in Ingestors :
       Running =>
          /\ Dispatching(i) => ENABLED DispatchStep(i[1], i[2])
          /\ pc[i[1]][i[2]] = "start" =>
                ENABLED IngestorStart(i[1], i[2])
          /\ (/\ pc[i[1]][i[2]] = "idle"
              /\ nlines[i[1]][i[2]] < MaxLines
              /\ TotalLines < MaxTotalLines) =>
                \A line \in IngestLines :
                   Parses(cfg[i[1]].Format, line) =>
                      ENABLED Receive(i[1], i[2], line)

\* C18: while the process runs, an ingestor that is inside its loop body
\* can make its next update, one that has just been started can build its
\* label buffer, and one at the head of its loop can take a line its tail
\* source holds, whatever the other ingestors, the supervisors, main and
\* the requests to the endpoint are doing; so, the goroutine being
\* scheduled, every parsed line an ingestor has taken is brought to the end
\* of the loop body.  The end of the process by another goroutine is not
\* held against this.
C18_WaitsOnlyOnOwnTail ==
    /\ []NeverWaits
    /\ \A i \in IngestIds :
          InsideLine(i) ~> (AfterLine(i) \/ EndedByAnother(i))

----------------------------------------------------------------------------
(* C19 *)

\* the slots per-line processing may write under configuration c: method,
\* status, the route slot and the relabel slots
LineSlots(c) ==
    (1..Intrinsic(c)) \cup
    {RelabelSlot(c, j) : j \in 1..Len(c.RelabelRules)}

\* C19: the step that starts an ingestor fills the static slots of its
\* buffer with the configured values in declared order and leaves the other
\* slots empty; from then on every step keeps the length of the buffer and
\* changes no slot but method, status, the route slot and the relabel
\* slots, whether the line parsed or not; so the static slots of the buffer
\* and of every label vector an update was made with hold the configured
\* values.
C19_StaticSlotsWrittenOnce ==
    /\ [][\A i \in Ingestors :
             LET c == cfg[i[1]]
                 lv == labelValues[i[1]][i[2]]
                 lw == labelValues'[i[1]][i[2]]
             IN  /\ (pc[i[1]][i[2]] = "start" /\ pc'[i[1]][i[2]] = "idle") =>
                       /\ Len(lw) = Len(ExpectedNames(c))
                       /\ \A k \in 1..Len(c.Labels) :
                             lw[StaticSlot(c, k)] = c.Labels[k].value
                       /\ \A k \in LineSlots(c) : lw[k] = Empty
                 /\ Born(i) =>
                       /\ Len(lw) = Len(lv)
                       /\ \A k \in 1..Len(lv) :
                             lw[k] # lv[k] => k \in LineSlots(c)
                 /\ LogsParseError(i) => lw = lv]_vars
    /\ [](\A i \in Ingestors :
             Born(i) =>
                \A k \in 1..Len(cfg[i[1]].Labels) :
                   /\ labelValues[i[1]][i[2]][StaticSlot(cfg[i[1]], k)] =
                          cfg[i[1]].Labels[k].value
                   /\ \A used \in UsedVectors(i[1]) :
                         used[StaticSlot(cfg[i[1]], k)] =
                             cfg[i[1]].Labels[k].value)

\* with route rules, two static labels and two relabel rules, a second line
\* has rewritten the method, the route and a relabel slot of the buffer the
\* first line was counted with
C19_Witness ==
    \E i \in Ingestors :
        LET c == cfg[i[1]]
            lv == labelValues[i[1]][i[2]]
        IN  /\ Routed(c)
            /\ Len(c.Labels) = 2
            /\ Len(c.RelabelRules) = 2
            /\ pc[i[1]][i[2]] = "count"
            /\ nlines[i[1]][i[2]] = 2
            /\ \E used \in DOMAIN metrics[i[1]].countTotal :
                  /\ used[1] # lv[1]
                  /\ used[3] # lv[3]
                  /\ used[RelabelSlot(c, 1)] # lv[RelabelSlot(c, 1)]
                  /\ used[StaticSlot(c, 1)] = lv[StaticSlot(c, 1)]
                  /\ used[StaticSlot(c, 2)] = <<"eu">>

----------------------------------------------------------------------------
(* C20 *)

\* the label vector the line of ingestor i resolves to in a buffer no line
\* has been written to
OwnVector(i) ==
    ResolveLabels(cfg[i[1]], NewLabelValues(cfg[i[1]]),
                  entry[i[1]][i[2]]).lv

\* C20: a step changes the label buffer of an ingestor only if it is a step
\* of that ingestor; in a namespace without route rules, while an ingestor
\* makes the updates of a line its buffer holds what that line resolves to,
\* whatever lines the other ingestors of the namespace take meanwhile, and
\* every child made or changed by one of its updates is the one of that
\* vector.
C20_OwnLabelBuffer ==
    /\ [][\A i \in Ingestors :
             /\ labelValues'[i[1]][i[2]] # labelValues[i[1]][i[2]] =>
                   StepOf(i)
             /\ (Dispatching(i) /\ StepOf(i) /\ ~Routed(cfg[i[1]])) =>
                   \A vec \in VecNames :
                      Touched(i[1], vec) \subseteq {OwnVector(i)}]_vars
    /\ [](\A i \in Ingestors :
             (Dispatching(i) /\ ~Routed(cfg[i[1]])) =>
                 labelValues[i[1]][i[2]] = OwnVector(i))

\* two ingestors of one namespace are inside the updates of lines that
\* resolve to different label vectors, and the one line counted so far was
\* counted under the vector of its own ingestor
C20_Witness ==
    \E i \in Ingestors, j \in Ingestors :
        /\ i[1] = j[1]
        /\ i # j
        /\ pc[i[1]][i[2]] = "bytes"
        /\ pc[j[1]][j[2]] = "count"
        /\ labelValues[i[1]][i[2]] # labelValues[j[1]][j[2]]
        /\ DOMAIN metrics[i[1]].countTotal = {labelValues[i[1]][i[2]]}

====
